---- MODULE Spec2Model ----
(* Celestial Spark: the galaxy travel transition (Galaxy.ts, WarpEffect.ts),  *)
(* solar-system activation and procedural generation (SolarSystem in          *)
(* GameState.ts), the planet lifecycle (evolution variant of                  *)
(* ProceduralPlanet.ts) and the GameState ledger with its persistence.        *)
EXTENDS Integers, Sequences, FiniteSets, TLC

(* ------------------------------------------------------------------------ *)
(* Bounds of the model                                                      *)
(* ------------------------------------------------------------------------ *)
\* largest GalaxyConfig.systemCount explored
MaxSystems == 3
\* largest number of listeners registered through onSystemChange
MaxListeners == 2
\* update() ticks are explored while every orbit angle stays within this cap
MaxAngle == 2
\* largest SolarSystemConfig.planetCount explored (3 is the least count that
\* allows an asteroid belt)
MaxPlanets == 3
\* lifecycle calls explored per galaxy run of SpecLife
MaxLifeCalls == 3
\* body names explored in the GameState ledger
MaxBodies == 2
\* calls explored on a GameState after its construction
MaxCalls == 5

(* ------------------------------------------------------------------------ *)
(* Program constants                                                        *)
(* ------------------------------------------------------------------------ *)
\* SolarSystem.create: an asteroid belt needs planets.length >= 3
BeltMinPlanets == 3
\* stages.length - 1 in advanceEvolution: the index of 'intelligent'
LastStage == 4

\* EvolutionStage, in the order of the stages array of advanceEvolution
Stages == <<"dormant", "microbial", "plant_life", "animal_life", "intelligent">>

\* stages.indexOf(stage)
StageIndex(stage) == CHOOSE i \in 1..Len(Stages) : Stages[i] = stage

\* absent values, of the type of the present ones
NoValue == "none"
NoClosure == [previous |-> -1, index |-> -1]
NoRequest == [index |-> -2, during |-> FALSE, inCallback |-> FALSE]
NoTravel == [from |-> -1, to |-> -1]
NoSnapshot == <<>>

VARIABLES
    \* Galaxy
    phase,                    \* progress of Galaxy.create(): "creating", "ready", "failed"
    config,                   \* GalaxyConfig and what generation derives from its seed
    solarSystems,             \* sequence of SolarSystem records (index i+1 is system i)
    currentSystemIndex,
    isTransitioning,
    onSystemChangeCallbacks,  \* sequence of listener identities
    \* WarpEffect
    isWarping,
    animation,                \* the pending onComplete closure of beginAnimation, if any
    \* the completion callback while it runs its listeners
    notifying,                \* position in onSystemChangeCallbacks of the next listener, 0 if none
    \* observations
    notified,                 \* listeners invoked by the latest completion callback, in order
    lastRequest,              \* the latest travelToSystem call and what became of it
    accepted,                 \* [from, to] of the latest accepted request, if any
    committed,                \* [from, to] of the latest commit, if any
    snapshot,                 \* per system: its planets as they were when it was deactivated
    lifeCalls,                \* lifecycle calls made on planets of the galaxy
    \* a single planet driven through its public interface
    planet,
    lastOp,                   \* the latest call made on it
    started,                  \* startEvolution has taken effect on it
    \* GameState
    gameState,                \* discoveredBodies, ignitedCount, totalPlanets, score
    storage,                  \* the blob under 'celestialSparkState' in localStorage
    lastCall,                 \* the latest call made on the GameState and its outcome
    calls,                    \* calls made on the GameState since its construction
    \* generation of one system, run twice from the same seed
    systemSeed,               \* hashSeed(baseSeed, index) of the system
    planetIndex,              \* planets generated so far in each run
    runA,                     \* first run: the system's config and its latest planet's config
    runB,                     \* second run
    \* one seeded generator (the closure returned by seededRandom)
    rngSeed,                  \* the seed it was built from
    rngState,                 \* its state
    rngDraws,                 \* values it has returned
    \* Game
    visited,                  \* indices of the systems that have been the current one
    \* GameState across page loads
    kindled,                  \* names ignitePlanet has ignited since the ledger was last empty
    \* two solar systems created in one scene
    sceneSystems,             \* the two SolarSystem objects
    sceneMeshes,              \* the moon meshes of scene.meshes, in creation order
    sceneCall,                \* the latest call made on one of the two systems
    updateLog                 \* update() calls the latest SolarSystem.update made, in order

galaxyVars == <<phase, config, solarSystems, currentSystemIndex, isTransitioning,
                onSystemChangeCallbacks, isWarping, animation, notifying>>
ghostVars == <<notified, lastRequest, accepted, committed, snapshot, lifeCalls>>
planetVars == <<planet, lastOp, started>>
gameStateVars == <<gameState, storage, lastCall, calls>>
generationVars == <<systemSeed, planetIndex, runA, runB>>
randomVars == <<rngSeed, rngState, rngDraws>>
sceneVars == <<sceneSystems, sceneMeshes, sceneCall, updateLog>>
restVars == <<randomVars, visited, kindled, sceneVars>>
besideGalaxy == <<planetVars, gameStateVars, generationVars, restVars>>
besidePlanet == <<galaxyVars, ghostVars, gameStateVars, generationVars, restVars>>
vars == <<galaxyVars, ghostVars, planetVars, gameStateVars, generationVars, restVars>>

(* ------------------------------------------------------------------------ *)
(* ProceduralPlanet (evolution variant)                                     *)
(* ------------------------------------------------------------------------ *)
\* constructor: the fields a fresh planet starts with
NewPlanet(habitable, angle, speed) ==
    [ isHabitable    |-> habitable,
      evolutionStage |-> "dormant",
      isEvolving     |-> FALSE,
      ignited        |-> FALSE,
      selected       |-> FALSE,
      enabled        |-> TRUE,
      orbitAngle     |-> angle,
      orbitSpeed     |-> speed ]

\* ProceduralPlanet.update: orbitAngle += orbitSpeed
PlanetUpdate(p) == [p EXCEPT !.orbitAngle = p.orbitAngle + p.orbitSpeed]

\* ProceduralPlanet.ignite: if (this.ignited || !this.mesh) return; the mesh
\* exists from create() on
ignite(p) == IF p.ignited THEN p ELSE [p EXCEPT !.ignited = TRUE]

setSelected(p, s) == [p EXCEPT !.selected = s]

setHabitable(p, h) == [p EXCEPT !.isHabitable = h]

\* a canEvolve that forgot the habitability test
canEvolveAnyPlanet(p) == p.evolutionStage # "intelligent" /\ ~p.isEvolving

canEvolve(p) == p.isHabitable /\ p.evolutionStage # "intelligent" /\ ~p.isEvolving

startEvolution(p) ==
    IF ~canEvolve(p) THEN p
    ELSE [p EXCEPT !.isEvolving = TRUE, !.ignited = TRUE]

\* an advanceEvolution that advances only while evolution is running
advanceEvolutionWhileRunning(p) ==
    IF ~p.isEvolving THEN p
    ELSE LET currentIndex == StageIndex(p.evolutionStage) - 1 IN
         IF currentIndex < LastStage
         THEN LET next == Stages[currentIndex + 2] IN
              [p EXCEPT !.evolutionStage = next,
                        !.isEvolving = IF next = "intelligent" THEN FALSE ELSE p.isEvolving]
         ELSE p

advanceEvolution(p) ==
    IF ~p.isEvolving /\ ~p.ignited THEN p
    ELSE LET currentIndex == StageIndex(p.evolutionStage) - 1 IN
         IF currentIndex < LastStage
         THEN LET next == Stages[currentIndex + 2] IN
              [p EXCEPT !.evolutionStage = next,
                        !.isEvolving = IF next = "intelligent" THEN FALSE ELSE p.isEvolving]
         ELSE p

\* a pauseEvolution that also put the planet out
pauseEvolutionExtinguish(p) == [p EXCEPT !.isEvolving = FALSE, !.ignited = FALSE]

pauseEvolution(p) == [p EXCEPT !.isEvolving = FALSE]

\* a resumeEvolution without the terminal-stage test
resumeEvolutionUnguarded(p) == [p EXCEPT !.isEvolving = TRUE]

resumeEvolution(p) ==
    IF p.evolutionStage # "intelligent" THEN [p EXCEPT !.isEvolving = TRUE] ELSE p

\* a setEnabled that rebuilt the planet's lifecycle when it is switched off
setEnabledReset(p, e) ==
    IF e THEN [p EXCEPT !.enabled = e]
    ELSE [p EXCEPT !.enabled = e, !.evolutionStage = "dormant", !.isEvolving = FALSE]

\* ProceduralPlanet.setEnabled: meshes and particle systems are switched, the
\* lifecycle fields and the orbit angle are not touched
setEnabled(p, e) == [p EXCEPT !.enabled = e]

(* ------------------------------------------------------------------------ *)
(* SolarSystem (evolution variant, GameState.ts 252-717)                     *)
(* ------------------------------------------------------------------------ *)
\* generatePlanetConfig: orbitSpeed = 0.003 / sqrt(distance / 15) falls with the
\* slot's distance; in model units the innermost slot moves 2 per tick, the
\* others 1
OrbitSpeed(slot) == IF slot = 1 THEN 2 ELSE 1

\* SolarSystem after create(): star, planets, optional belt, comets, orbit lines.
\* orbitAngle is measured from the planet's random initial phase.
NewSystem(planetCount, habitable, belt) ==
    [ isActive          |-> FALSE,
      planets           |-> [k \in 1..planetCount |-> NewPlanet(k \in habitable, 0, OrbitSpeed(k))],
      asteroidBelt      |-> belt,
      starEnabled       |-> TRUE,
      cometsEnabled     |-> TRUE,
      orbitLinesEnabled |-> TRUE ]

\* setActive calls this.asteroidBelt.setEnabled(active), a method AsteroidBelt
\* does not have: with a belt the call throws a TypeError
setActiveThrows(sys) == sys.asteroidBelt

\* SolarSystem.setActive, up to the point where it returns or throws
setActive(sys, active) ==
    [sys EXCEPT !.isActive = active,
                !.starEnabled = active,
                !.planets = [k \in DOMAIN sys.planets |-> setEnabled(sys.planets[k], active)],
                !.cometsEnabled = active,
                !.orbitLinesEnabled = IF setActiveThrows(sys) THEN @ ELSE active]

\* SolarSystem.update: no-op unless active, else every planet is updated
SystemUpdate(sys) ==
    IF ~sys.isActive THEN sys
    ELSE [sys EXCEPT !.planets = [k \in DOMAIN sys.planets |-> PlanetUpdate(sys.planets[k])]]

(* ------------------------------------------------------------------------ *)
(* Galaxy and WarpEffect                                                    *)
(* ------------------------------------------------------------------------ *)
\* solarSystems[index] for a 0-based index
System(index) == solarSystems[index + 1]

\* the indices travelToSystem is called with: every valid one, -1 and length
Requests == -1..MaxSystems

\* Galaxy.create, one iteration of its loop: generate, create, setActive(i === 0),
\* push. A system gets a belt when the roll succeeds and it has >= 3 planets;
\* setActive then throws and create() ends rejected, the system not pushed.
CreateSystem ==
    /\ phase = "creating"
    /\ LET i == Len(solarSystems)
           planetCount == config.planetCount[i + 1]
       IN \E roll \in BOOLEAN :
            LET belt == roll /\ planetCount >= BeltMinPlanets
                system == NewSystem(planetCount, config.habitable[i + 1], belt)
            IN IF setActiveThrows(system)
               THEN /\ phase' = "failed"
                    /\ UNCHANGED solarSystems
               ELSE /\ solarSystems' = Append(solarSystems, setActive(system, i = 0))
                    /\ phase' = IF i + 1 = config.systemCount THEN "ready" ELSE "creating"
    /\ snapshot' = snapshot
    /\ UNCHANGED <<config, currentSystemIndex, isTransitioning, onSystemChangeCallbacks,
                   isWarping, animation, notifying>>
    /\ UNCHANGED <<notified, lastRequest, accepted, committed, lifeCalls>>
    /\ UNCHANGED besideGalaxy

\* the guards without the index === currentSystemIndex test
travelOutcomeNoSame(index) ==
    IF index < 0 \/ index >= Len(solarSystems) THEN "invalid"
    ELSE IF isTransitioning THEN "dropped"
    ELSE "accepted"

\* the guards of travelToSystem, in the order of the code
travelOutcome(index) ==
    IF index < 0 \/ index >= Len(solarSystems) THEN "invalid"
    ELSE IF index = currentSystemIndex THEN "same"
    ELSE IF isTransitioning THEN "dropped"
    ELSE "accepted"

\* WarpEffect.startWarp: returns at once while isWarping, discarding onComplete;
\* otherwise the animation is begun with onComplete as its end callback
startWarp(onComplete) ==
    IF isWarping
    THEN UNCHANGED <<isWarping, animation>>
    ELSE /\ isWarping' = TRUE
         /\ animation' = onComplete

\* a travelToSystem that overwrote the pending target while in transit
travelToSystemLastWins(index) ==
    /\ lastRequest' = [index |-> index, during |-> isTransitioning, inCallback |-> notifying > 0]
    /\ IF travelOutcome(index) = "accepted"
       THEN /\ isTransitioning' = TRUE
            /\ startWarp([previous |-> currentSystemIndex, index |-> index])
            /\ accepted' = [from |-> currentSystemIndex, to |-> index]
       ELSE IF travelOutcome(index) = "dropped" /\ animation # NoClosure
       THEN /\ animation' = [animation EXCEPT !.index = index]
            /\ UNCHANGED <<isTransitioning, isWarping, accepted>>
       ELSE UNCHANGED <<isTransitioning, isWarping, animation, accepted>>
    /\ UNCHANGED <<solarSystems, currentSystemIndex, committed, snapshot>>

\* a travelToSystem that swapped the systems at once instead of in onComplete
travelToSystemEager(index) ==
    /\ lastRequest' = [index |-> index, during |-> isTransitioning, inCallback |-> notifying > 0]
    /\ IF travelOutcome(index) = "accepted"
       THEN /\ isTransitioning' = TRUE
            /\ startWarp([previous |-> currentSystemIndex, index |-> index])
            /\ accepted' = [from |-> currentSystemIndex, to |-> index]
            /\ solarSystems' = [solarSystems EXCEPT
                   ![currentSystemIndex + 1] = setActive(System(currentSystemIndex), FALSE),
                   ![index + 1] = setActive(System(index), TRUE)]
            /\ currentSystemIndex' = index
            /\ UNCHANGED <<committed, snapshot>>
       ELSE UNCHANGED <<isTransitioning, isWarping, animation, accepted,
                        solarSystems, currentSystemIndex, committed, snapshot>>

\* Galaxy.travelToSystem: what it does to the galaxy and the effect
travelToSystem(index) ==
    /\ lastRequest' = [index |-> index, during |-> isTransitioning, inCallback |-> notifying > 0]
    /\ IF travelOutcome(index) = "accepted"
       THEN /\ isTransitioning' = TRUE
            /\ startWarp([previous |-> currentSystemIndex, index |-> index])
            /\ accepted' = [from |-> currentSystemIndex, to |-> index]
       ELSE UNCHANGED <<isTransitioning, isWarping, animation, accepted>>
    /\ UNCHANGED <<solarSystems, currentSystemIndex, committed, snapshot>>

\* what no travel request touches
travelFrame ==
    /\ UNCHANGED <<phase, config, onSystemChangeCallbacks, notifying>>
    /\ UNCHANGED <<notified, lifeCalls>>
    /\ UNCHANGED besideGalaxy

\* a caller outside any callback: create() has completed, no callback is running
Idle == phase = "ready" /\ notifying = 0

TravelToSystem ==
    /\ Idle
    /\ \E index \in Requests : travelToSystem(index)
    /\ travelFrame

nextIndex == (currentSystemIndex + 1) % Len(solarSystems)

prevIndex == (currentSystemIndex - 1 + Len(solarSystems)) % Len(solarSystems)

TravelToNextSystem ==
    /\ Idle
    /\ travelToSystem(nextIndex)
    /\ travelFrame

TravelToPreviousSystem ==
    /\ Idle
    /\ travelToSystem(prevIndex)
    /\ travelFrame

\* Game.travelToNextSystem: returns when the galaxy is in transit
GameTravelToNextSystem ==
    /\ Idle
    /\ IF isTransitioning
       THEN UNCHANGED <<isTransitioning, isWarping, animation, accepted, lastRequest,
                        solarSystems, currentSystemIndex, committed, snapshot>>
       ELSE travelToSystem(nextIndex)
    /\ travelFrame

GameTravelToPreviousSystem ==
    /\ Idle
    /\ IF isTransitioning
       THEN UNCHANGED <<isTransitioning, isWarping, animation, accepted, lastRequest,
                        solarSystems, currentSystemIndex, committed, snapshot>>
       ELSE travelToSystem(prevIndex)
    /\ travelFrame

\* Galaxy.onSystemChange: the k-th listener registered is listener k
OnSystemChange ==
    /\ Idle
    /\ Len(onSystemChangeCallbacks) < MaxListeners
    /\ onSystemChangeCallbacks' = Append(onSystemChangeCallbacks, Len(onSystemChangeCallbacks) + 1)
    /\ UNCHANGED <<phase, config, solarSystems, currentSystemIndex, isTransitioning,
                   isWarping, animation, notifying>>
    /\ UNCHANGED ghostVars
    /\ UNCHANGED besideGalaxy

\* the four planet fields a frozen system must keep
Frozen(ps) ==
    [k \in DOMAIN ps |-> [ evolutionStage |-> ps[k].evolutionStage,
                           ignited        |-> ps[k].ignited,
                           isEvolving     |-> ps[k].isEvolving,
                           orbitAngle     |-> ps[k].orbitAngle ]]

\* a stopWarp that leaves the flag set
stopWarpKeepsFlag == isWarping' = isWarping

\* WarpEffect.stopWarp: the flag is cleared (the rest is visual)
stopWarp == isWarping' = FALSE

\* the end callback of the warp animation: stopWarp(), then the onComplete
\* closure of travelToSystem up to its forEach over the listeners. A throwing
\* setActive ends the callback where it throws.
WarpComplete ==
    /\ phase = "ready"
    /\ notifying = 0
    /\ animation # NoClosure
    /\ stopWarp
    /\ animation' = NoClosure
    /\ LET p == animation.previous
           n == animation.index
           previousSystem == System(p)
           nextSystem == System(n)
       IN IF setActiveThrows(previousSystem)
          THEN /\ solarSystems' = [solarSystems EXCEPT ![p + 1] = setActive(previousSystem, FALSE)]
               /\ UNCHANGED <<currentSystemIndex, isTransitioning, notifying, notified,
                              committed, snapshot>>
          ELSE IF setActiveThrows(nextSystem)
          THEN /\ solarSystems' = [solarSystems EXCEPT ![p + 1] = setActive(previousSystem, FALSE),
                                                       ![n + 1] = setActive(nextSystem, TRUE)]
               /\ UNCHANGED <<currentSystemIndex, isTransitioning, notifying, notified,
                              committed, snapshot>>
          ELSE /\ solarSystems' = [solarSystems EXCEPT ![p + 1] = setActive(previousSystem, FALSE),
                                                       ![n + 1] = setActive(nextSystem, TRUE)]
               /\ currentSystemIndex' = n
               /\ isTransitioning' = FALSE
               /\ notifying' = IF Len(onSystemChangeCallbacks) > 0 THEN 1 ELSE 0
               /\ notified' = <<>>
               /\ committed' = [from |-> p, to |-> n]
               /\ snapshot' = [snapshot EXCEPT ![p + 1] = Frozen(previousSystem.planets),
                                               ![n + 1] = NoSnapshot]
    /\ UNCHANGED <<phase, config, onSystemChangeCallbacks>>
    /\ UNCHANGED <<lastRequest, accepted, lifeCalls>>
    /\ UNCHANGED besideGalaxy

\* forEach without the registration order: last registered, first called
listenerAtReversed(position) ==
    onSystemChangeCallbacks[Len(onSystemChangeCallbacks) + 1 - position]

\* the listener forEach calls at a position: registration order
listenerAt(position) == onSystemChangeCallbacks[position]

\* one iteration of onSystemChangeCallbacks.forEach(cb => cb(nextSystem)): the
\* listener runs synchronously and may itself request a travel
NotifyListener ==
    /\ notifying > 0
    /\ notified' = Append(notified, listenerAt(notifying))
    /\ notifying' = IF notifying < Len(onSystemChangeCallbacks) THEN notifying + 1 ELSE 0
    /\ \/ UNCHANGED <<isTransitioning, isWarping, animation, accepted, lastRequest,
                      solarSystems, currentSystemIndex, committed, snapshot>>
       \/ \E index \in Requests : travelToSystem(index)
    /\ UNCHANGED <<phase, config, onSystemChangeCallbacks, lifeCalls>>
    /\ UNCHANGED besideGalaxy

\* Galaxy.update, one tick of the render loop: the current system is updated
Update ==
    /\ Idle
    /\ \A k \in DOMAIN System(currentSystemIndex).planets :
         LET p == System(currentSystemIndex).planets[k]
         IN p.orbitAngle + p.orbitSpeed <= MaxAngle
    /\ solarSystems' = [solarSystems EXCEPT
                          ![currentSystemIndex + 1] = SystemUpdate(System(currentSystemIndex))]
    /\ UNCHANGED <<phase, config, currentSystemIndex, isTransitioning, onSystemChangeCallbacks,
                   isWarping, animation, notifying>>
    /\ UNCHANGED ghostVars
    /\ UNCHANGED besideGalaxy

\* a lifecycle call on a planet of the current system (getCurrentSystem().getPlanets())
lifecycleCall(name, p) ==
    CASE name = "ignite" -> ignite(p)
      [] name = "startEvolution" -> startEvolution(p)
      [] name = "advanceEvolution" -> advanceEvolution(p)
      [] name = "pauseEvolution" -> pauseEvolution(p)
      [] name = "resumeEvolution" -> resumeEvolution(p)

LifeCall(name) ==
    /\ Idle
    /\ lifeCalls < MaxLifeCalls
    /\ \E k \in DOMAIN System(currentSystemIndex).planets :
         solarSystems' = [solarSystems EXCEPT
             ![currentSystemIndex + 1].planets[k] =
                 lifecycleCall(name, System(currentSystemIndex).planets[k])]
    /\ lifeCalls' = lifeCalls + 1
    /\ UNCHANGED <<phase, config, currentSystemIndex, isTransitioning, onSystemChangeCallbacks,
                   isWarping, animation, notifying>>
    /\ UNCHANGED <<notified, lastRequest, accepted, committed, snapshot>>
    /\ UNCHANGED besideGalaxy

IgniteCall == LifeCall("ignite")
StartEvolutionCall == LifeCall("startEvolution")
AdvanceEvolutionCall == LifeCall("advanceEvolution")
PauseEvolutionCall == LifeCall("pauseEvolution")
ResumeEvolutionCall == LifeCall("resumeEvolution")

(* ------------------------------------------------------------------------ *)
(* GameState (GameState.ts 16-127)                                          *)
(* ------------------------------------------------------------------------ *)
\* body names the callers use
Names == 1..MaxBodies

\* CelestialBodyData; distance and size in thousandths
Body(type, distance, size, ignited) ==
    [type |-> type, distance |-> distance, size |-> size, ignited |-> ignited]

\* the data callers pass: distance 20 or 0.005, size 1.5
BodyData ==
    { Body("planet", 20000, 1500, FALSE), Body("planet", 5, 1500, FALSE),
      Body("moon", 20000, 1500, FALSE), Body("planet", 5, 1500, TRUE) }

\* a Map<string, CelestialBodyData> is the sequence of its entries in
\* insertion order, one entry per name
Entry(name, data) == [name |-> name, data |-> data]

MapHas(map, name) == \E i \in DOMAIN map : map[i].name = name

MapGet(map, name) == map[CHOOSE i \in DOMAIN map : map[i].name = name].data

\* Map.set: a known name keeps its place and takes the new value
MapSet(map, name, data) ==
    IF MapHas(map, name)
    THEN [i \in DOMAIN map |-> IF map[i].name = name THEN Entry(name, data) ELSE map[i]]
    ELSE Append(map, Entry(name, data))

\* new Map(entries)
RECURSIVE MapFrom(_)
MapFrom(entries) ==
    IF entries = <<>> THEN <<>>
    ELSE LET last == entries[Len(entries)] IN
         MapSet(MapFrom(SubSeq(entries, 1, Len(entries) - 1)), last.name, last.data)

\* the field initialisers of GameState
NewGameState ==
    [discoveredBodies |-> <<>>, ignitedCount |-> 0, totalPlanets |-> 0, score |-> 0]

\* an addDiscoveredBody where the last write wins
addDiscoveredBodyOverwrite(g, name, data) ==
    [g EXCEPT !.discoveredBodies = MapSet(g.discoveredBodies, name, data),
              !.totalPlanets = IF data.type = "planet" /\ ~MapHas(g.discoveredBodies, name)
                               THEN g.totalPlanets + 1 ELSE g.totalPlanets]

addDiscoveredBody(g, name, data) ==
    IF ~MapHas(g.discoveredBodies, name)
    THEN [g EXCEPT !.discoveredBodies = MapSet(g.discoveredBodies, name, data),
                   !.totalPlanets = IF data.type = "planet"
                                    THEN g.totalPlanets + 1 ELSE g.totalPlanets]
    ELSE g

\* Math.floor(body.distance * 100 + body.size * 500)
bodyScore(body) == (body.distance * 100 + body.size * 500) \div 1000

\* the test of ignitePlanet: body && !body.ignited
canIgnite(g, name) ==
    MapHas(g.discoveredBodies, name) /\ ~MapGet(g.discoveredBodies, name).ignited

\* an ignitePlanet that counts a body each time it is ignited
ignitePlanetAgain(g, name) ==
    IF MapHas(g.discoveredBodies, name)
    THEN LET body == MapGet(g.discoveredBodies, name) IN
         [g EXCEPT !.discoveredBodies = MapSet(g.discoveredBodies, name,
                                               [body EXCEPT !.ignited = TRUE]),
                   !.ignitedCount = g.ignitedCount + 1,
                   !.score = g.score + bodyScore(body)]
    ELSE g

\* ignitePlanet, up to its call of saveState
ignitePlanet(g, name) ==
    IF canIgnite(g, name)
    THEN LET body == MapGet(g.discoveredBodies, name) IN
         [g EXCEPT !.discoveredBodies = MapSet(g.discoveredBodies, name,
                                               [body EXCEPT !.ignited = TRUE]),
                   !.ignitedCount = g.ignitedCount + 1,
                   !.score = g.score + bodyScore(body)]
    ELSE g

\* a getProgress that rounds up
getProgressCeil(g) ==
    IF g.totalPlanets = 0 THEN 0
    ELSE (g.ignitedCount * 100 + g.totalPlanets - 1) \div g.totalPlanets

\* Math.floor((ignitedCount / totalPlanets) * 100); for the counts explored
\* the double-precision quotient and product give the exact floor
getProgress(g) ==
    IF g.totalPlanets = 0 THEN 0
    ELSE (g.ignitedCount * 100) \div g.totalPlanets

\* what localStorage holds under the key. kind: "missing" (getItem gives
\* null), "unparseable" (JSON.parse throws), "null" (the JSON text null) or
\* "object". bodies.form: "entries" (an array of [name, data] pairs),
\* "absent" (no discoveredBodies member) or "notIterable" (new Map throws)
Bodies(form, entries) == [form |-> form, entries |-> entries]

Blob(kind, bodies, ignitedCount, totalPlanets, score) ==
    [kind |-> kind, bodies |-> bodies, ignitedCount |-> ignitedCount,
     totalPlanets |-> totalPlanets, score |-> score]

MissingBlob == Blob("missing", Bodies("absent", <<>>), 0, 0, 0)

\* saveState: Array.from(entries) and the counts, as JSON
saveState(g) ==
    Blob("object", Bodies("entries", g.discoveredBodies),
         g.ignitedCount, g.totalPlanets, g.score)

\* the statements of loadState up to the one that throws, if one does
loadThrows(blob, readThrows) ==
    \/ readThrows
    \/ blob.kind \in {"unparseable", "null"}
    \/ blob.kind = "object" /\ blob.bodies.form = "notIterable"

\* a loadState that read the counts before it built the map
loadStateCountsFirst(g, blob, readThrows) ==
    IF readThrows \/ blob.kind \in {"missing", "unparseable", "null"} THEN g
    ELSE LET counts == [g EXCEPT !.ignitedCount = blob.ignitedCount,
                                 !.totalPlanets = blob.totalPlanets,
                                 !.score = blob.score] IN
         IF blob.bodies.form = "notIterable" THEN counts
         ELSE [counts EXCEPT !.discoveredBodies = MapFrom(blob.bodies.entries)]

\* loadState: nothing is assigned when getItem gives null or a statement
\* throws; new Map(parsed.discoveredBodies) is the first assignment and the
\* last statement that can throw; x || 0 gives 0 for a missing count
loadState(g, blob, readThrows) ==
    IF blob.kind = "missing" \/ loadThrows(blob, readThrows) THEN g
    ELSE [discoveredBodies |-> MapFrom(blob.bodies.entries),
          ignitedCount |-> blob.ignitedCount,
          totalPlanets |-> blob.totalPlanets,
          score |-> blob.score]

\* resetState, up to its call of localStorage.removeItem
resetState(g) == NewGameState

\* a call on the GameState: its name argument, whether it raised an exception
\* to its caller, and what it returned
Call(op, name, threw, result) ==
    [op |-> op, name |-> name, threw |-> threw, result |-> result]

NoCall == Call("none", 0, FALSE, 0)

\* no GameState is explored
NoLedger ==
    /\ gameState = NewGameState
    /\ storage = MissingBlob
    /\ lastCall = NoCall
    /\ calls = 0

(* ------------------------------------------------------------------------ *)
(* Procedural generation (Galaxy.ts 59-132, GameState.ts 376-566, 638-644)  *)
(* ------------------------------------------------------------------------ *)
\* seededRandom keeps a state masked by 0x7fffffff and returns state divided
\* by the mask. The model keeps 4 bits of state: a roll is state / RngMask
RngMask == 15

\* state = (state * 1103515245 + 12345) & 0x7fffffff, on 4 bits
nextState(state) == (state * 5 + 3) % (RngMask + 1)

\* the states behind the first numbers drawn from seededRandom(seed): no
\* generator is asked for more than 9
seededRandom(seed) ==
    LET s1 == nextState(seed)
        s2 == nextState(s1)
        s3 == nextState(s2)
        s4 == nextState(s3)
        s5 == nextState(s4)
        s6 == nextState(s5)
        s7 == nextState(s6)
        s8 == nextState(s7)
        s9 == nextState(s8) IN
    <<s1, s2, s3, s4, s5, s6, s7, s8, s9>>

\* roll < percent / 100
Below(state, percent) == state * 100 < percent * RngMask

\* Math.floor(random() * count)
FloorOf(state, count) == (state * count) \div RngMask

\* base + random() * range for base and range in thousandths: the value in
\* units of 1 / (1000 * RngMask)
Scaled(base, range, state) == base * RngMask + state * range

\* STAR_TEMPLATES[type].size
StarSize ==
    [yellow_dwarf |-> 8, red_dwarf |-> 5, blue_giant |-> 14, orange_giant |-> 12,
     white_dwarf |-> 3, red_giant |-> 18, deep_orange |-> 10]

HABITABLE_ZONES ==
    [yellow_dwarf |-> [inner |-> 25, outer |-> 45],
     red_dwarf    |-> [inner |-> 12, outer |-> 22],
     blue_giant   |-> [inner |-> 60, outer |-> 100],
     orange_giant |-> [inner |-> 35, outer |-> 60],
     white_dwarf  |-> [inner |-> 8, outer |-> 15],
     red_giant    |-> [inner |-> 50, outer |-> 80],
     deep_orange  |-> [inner |-> 30, outer |-> 50]]

selectStarType(state) ==
    IF Below(state, 45) THEN "red_dwarf"
    ELSE IF Below(state, 70) THEN "yellow_dwarf"
    ELSE IF Below(state, 82) THEN "orange_giant"
    ELSE IF Below(state, 90) THEN "white_dwarf"
    ELSE IF Below(state, 96) THEN "red_giant"
    ELSE "blue_giant"

getBasePlanetCount(starType) ==
    CASE starType = "red_dwarf" -> 2
      [] starType = "yellow_dwarf" -> 4
      [] starType = "orange_giant" -> 3
      [] starType = "white_dwarf" -> 1
      [] starType = "red_giant" -> 2
      [] starType = "blue_giant" -> 5
      [] OTHER -> 3

\* generateSystemConfig: the draws are the star roll, angle, radius, height
\* and the planet-count roll, all from the stream seeded by hashSeed
generateSystemConfig(seed) ==
    LET random == seededRandom(seed)
        starType == selectStarType(random[1]) IN
    [ starType    |-> starType,
      planetCount |-> getBasePlanetCount(starType) + FloorOf(random[5], 3) ]

\* a getDistanceIncrement whose white-dwarf increment is below the largest jitter
getDistanceIncrementNarrow(starType) ==
    CASE starType = "red_dwarf" -> 8
      [] starType = "blue_giant" -> 18
      [] starType = "red_giant" -> 22
      [] starType = "orange_giant" -> 15
      [] starType = "white_dwarf" -> 4
      [] starType = "deep_orange" -> 14
      [] OTHER -> 12

getDistanceIncrement(starType) ==
    CASE starType = "red_dwarf" -> 8
      [] starType = "blue_giant" -> 18
      [] starType = "red_giant" -> 22
      [] starType = "orange_giant" -> 15
      [] starType = "white_dwarf" -> 6
      [] starType = "deep_orange" -> 14
      [] OTHER -> 12

\* generatePlanets: baseDistance + (i + 1) * distanceIncrement + Math.random() * 5
\* with baseDistance = starSize * 1.5 + 5. Distances are in halves.
planetDistance(starType, i, jitter) ==
    (StarSize[starType] * 3 + 10) + (i + 1) * 2 * getDistanceIncrement(starType) + jitter

\* whether determinePlanetType draws a roll: not in the red_hot band
typeDraws(starType, distance) ==
    IF distance < HABITABLE_ZONES[starType].inner THEN 0 ELSE 1

\* determinePlanetType, the roll being the next number of the planet's stream
determinePlanetType(starType, distance, roll) ==
    LET habitableZone == HABITABLE_ZONES[starType] IN
    IF distance < habitableZone.inner THEN "red_hot"
    ELSE IF distance < 2 * habitableZone.inner
    THEN IF Below(roll, 50) THEN "rocky"
         ELSE IF Below(roll, 80) THEN "desert"
         ELSE "mars_like"
    ELSE IF distance <= 2 * habitableZone.outer
    THEN IF Below(roll, 35) THEN "earth_like"
         ELSE IF Below(roll, 55) THEN "ocean"
         ELSE IF Below(roll, 75) THEN "mars_like"
         ELSE IF Below(roll, 90) THEN "desert"
         ELSE "rocky"
    ELSE IF distance <= 3 * habitableZone.outer
    THEN IF Below(roll, 40) THEN "mars_like"
         ELSE IF Below(roll, 70) THEN "icy_cold"
         ELSE "rocky"
    ELSE IF Below(roll, 40) THEN "gas_giant"
         ELSE IF Below(roll, 70) THEN "ice_giant"
         ELSE "icy_cold"

getSizeForPlanetType(planetType, roll) ==
    CASE planetType = "gas_giant" -> Scaled(2500, 2000, roll)
      [] planetType = "ice_giant" -> Scaled(2000, 1500, roll)
      [] planetType = "earth_like" -> Scaled(900, 400, roll)
      [] planetType = "ocean" -> Scaled(800, 500, roll)
      [] planetType = "mars_like" -> Scaled(500, 400, roll)
      [] planetType = "red_hot" -> Scaled(400, 500, roll)
      [] planetType = "icy_cold" -> Scaled(600, 800, roll)
      [] planetType = "desert" -> Scaled(700, 500, roll)
      [] OTHER -> Scaled(500, 700, roll)

\* the numbers getColorForPlanetType draws
colorDraws(planetType) ==
    CASE planetType = "gas_giant" -> 4
      [] planetType \in {"icy_cold", "red_hot"} -> 2
      [] OTHER -> 3

\* getColorForPlanetType, its draws following the k-th of the planet's stream
getColorForPlanetType(planetType, random, k) ==
    LET r1 == random[k + 1]
        r2 == random[k + 2]
        r3 == random[k + 3]
        r4 == random[k + 4] IN
    CASE planetType = "earth_like" ->
           <<Scaled(200, 200, r1), Scaled(500, 200, r2), Scaled(700, 200, r3)>>
      [] planetType = "mars_like" ->
           <<Scaled(800, 150, r1), Scaled(350, 150, r2), Scaled(200, 100, r3)>>
      [] planetType = "gas_giant" ->
           IF Below(r1, 50)
           THEN <<Scaled(850, 100, r2), Scaled(600, 200, r3), Scaled(400, 150, r4)>>
           ELSE <<Scaled(900, 100, r2), Scaled(800, 150, r3), Scaled(500, 150, r4)>>
      [] planetType = "ice_giant" ->
           <<Scaled(200, 150, r1), Scaled(500, 200, r2), Scaled(800, 150, r3)>>
      [] planetType = "icy_cold" ->
           <<Scaled(800, 150, r1), Scaled(850, 100, r2), Scaled(950, 0, 0)>>
      [] planetType = "red_hot" ->
           <<Scaled(950, 0, 0), Scaled(250, 200, r1), Scaled(100, 100, r2)>>
      [] planetType = "ocean" ->
           <<Scaled(150, 100, r1), Scaled(400, 200, r2), Scaled(850, 100, r3)>>
      [] planetType = "desert" ->
           <<Scaled(850, 100, r1), Scaled(700, 150, r2), Scaled(450, 150, r3)>>
      [] OTHER ->
           <<Scaled(500, 200, r1), Scaled(450, 150, r2), Scaled(400, 150, r3)>>

\* a habitability test that forgot the planet type
isHabitableInZone(starType, distance, planetType) ==
    LET habitableZone == HABITABLE_ZONES[starType] IN
    distance >= 2 * habitableZone.inner /\ distance <= 2 * habitableZone.outer

\* generatePlanetConfig: isInHabitableZone && habitablePlanetTypes.includes(planetType)
isHabitableAt(starType, distance, planetType) ==
    LET habitableZone == HABITABLE_ZONES[starType]
        isInHabitableZone ==
            distance >= 2 * habitableZone.inner /\ distance <= 2 * habitableZone.outer IN
    isInHabitableZone /\ planetType \in {"earth_like", "mars_like", "ocean"}

\* generatePlanetConfig for the stream seeded by the hash of the planet's key;
\* draw order: prefix, suffix, type, size, color, rings
generatePlanetConfig(starType, seed, distance) ==
    LET random == seededRandom(seed)
        planetType == determinePlanetType(starType, distance, random[3])
        k == 2 + typeDraws(starType, distance)
        rings == random[k + 1 + colorDraws(planetType) + 1] IN
    [ name        |-> <<FloorOf(random[1], 24), FloorOf(random[2], 16)>>,
      distance    |-> distance,
      size        |-> getSizeForPlanetType(planetType, random[k + 1]),
      color       |-> getColorForPlanetType(planetType, random, k + 1),
      hasRings    |-> planetType \in {"gas_giant", "ice_giant"}
                      /\ rings * 100 > 40 * RngMask,
      planetType  |-> planetType,
      isHabitable |-> isHabitableAt(starType, distance, planetType) ]

(* ------------------------------------------------------------------------ *)
(* The seeded generator at its full width. The state is a 31-bit integer,   *)
(* the arithmetic is that of IEEE doubles: a product or a sum of 2^53 or    *)
(* more is rounded to 53 significant bits, ties to even, before `& mask`    *)
(* keeps its low 31 bits.                                                    *)
(* ------------------------------------------------------------------------ *)
LcgMultiplier == 1103515245
LcgIncrement == 12345
StateMask == 2147483647
DoubleBits == 53

\* integers beyond 2^31 are written in digits of 15 bits, least significant first
Limb == 32768

Digits(n) == <<n % Limb, (n \div Limb) % Limb, n \div (Limb * Limb)>>

\* carries the columns of a sum or product into five digits
Normalise(c) ==
    LET k2 == c[2] + (c[1] \div Limb)
        k3 == c[3] + (k2 \div Limb)
        k4 == c[4] + (k3 \div Limb)
        k5 == c[5] + (k4 \div Limb)
    IN  <<c[1] % Limb, k2 % Limb, k3 % Limb, k4 % Limb, k5>>

\* the exact product of two integers below 2^31
Times(x, y) ==
    LET a == Digits(x)
        b == Digits(y)
    IN  Normalise(<<a[1] * b[1],
                    a[1] * b[2] + a[2] * b[1],
                    a[1] * b[3] + a[2] * b[2] + a[3] * b[1],
                    a[2] * b[3] + a[3] * b[2],
                    a[3] * b[3]>>)

\* the exact sum of an integer and a small one
Plus(p, n) == Normalise(<<p[1] + n, p[2], p[3], p[4], p[5]>>)

\* number of significant bits
BitLength(p) ==
    LET top == IF \E i \in 1..5 : p[i] # 0
               THEN CHOOSE i \in 1..5 : p[i] # 0 /\ \A j \in (i + 1)..5 : p[j] = 0
               ELSE 1
        bits == IF p[top] = 0 THEN 0
                ELSE CHOOSE k \in 1..31 : p[top] \div (2 ^ (k - 1)) = 1
    IN  15 * (top - 1) + bits

\* the double nearest to an integer, ties to even
RoundToDouble(p) ==
    LET e == BitLength(p) - DoubleBits
    IN  IF e <= 0 THEN p
        ELSE LET unit == 2 ^ e
                 r == p[1] % unit
                 odd == (p[1] \div unit) % 2 = 1
                 up == r * 2 > unit \/ (r * 2 = unit /\ odd)
             IN  Normalise(<<p[1] - r + (IF up THEN unit ELSE 0), p[2], p[3], p[4], p[5]>>)

\* `& 0x7fffffff`: the low 31 bits
Low31(p) == p[1] + p[2] * Limb + (p[3] % 2) * Limb * Limb

\* the step with integer arithmetic that never rounds
randomStepExact(state) ==
    Low31(Plus(Times(state, LcgMultiplier), LcgIncrement))

\* state = (state * 1103515245 + 12345) & 0x7fffffff
randomStep(state) ==
    Low31(RoundToDouble(Plus(RoundToDouble(Times(state, LcgMultiplier)), LcgIncrement)))

\* Math.floor(random() * count) for the value state / 0x7fffffff: with
\* state * count = high * 2^31 + low, that is high * 0x7fffffff + (high + low)
floorOfDraw(state, count) ==
    LET p == Times(state, count)
        high == (p[3] \div 2) + p[4] * (Limb \div 2)
        low == Low31(p)
    IN  IF low >= StateMask - high THEN high + 1 ELSE high

(* ------------------------------------------------------------------------ *)
(* The galaxy Game builds: systemCount 5, seed 42. Planet counts and planet *)
(* names come from the seeded streams alone, at their full width.           *)
(* ------------------------------------------------------------------------ *)
\* (hash * factor + addend) | 0 for a 32-bit hash: the low 32 bits, signed
MulAdd32(hash, factor, addend) ==
    LET low == (hash % 65536) * factor + addend
        top == ((hash \div 65536) * factor + (low \div 65536)) % 65536
    IN  (IF top >= 32768 THEN top - 65536 ELSE top) * 65536 + (low % 65536)

\* Math.abs
Abs(n) == IF n < 0 THEN 0 - n ELSE n

\* hashString over the char codes of the string: hash = ((hash << 5) - hash) + char
RECURSIVE hashCodes(_, _)
hashCodes(hash, codes) ==
    IF codes = <<>> THEN hash
    ELSE hashCodes(MulAdd32(hash, 31, Head(codes)), Tail(codes))

hashString(codes) == Abs(hashCodes(0, codes))

\* the char codes of `system_${i}_planet_${j}` for one-digit i and j
PlanetKey(i, j) ==
    <<115, 121, 115, 116, 101, 109, 95, 48 + i, 95, 112, 108, 97, 110, 101, 116, 95, 48 + j>>

\* a ^ b for non-negative integers
RECURSIVE Xor(_, _)
Xor(a, b) ==
    IF a = 0 THEN b
    ELSE IF b = 0 THEN a
    ELSE ((a + b) % 2) + 2 * Xor(a \div 2, b \div 2)

\* HASH_GOLDEN_RATIO = 2654435769 in digits of 15 bits
GoldenDigits == <<31161, 15470, 2>>

\* Galaxy.hashSeed for a non-negative baseSeed and a small index: two mixing
\* steps in 32 bits, then ((hash * HASH_GOLDEN_RATIO) >>> 0) ^ (index * HASH_PRIME_3),
\* the product rounded to a double and negated modulo 2^32 when hash < 0
hashSeed(baseSeed, index) ==
    LET h1 == MulAdd32(baseSeed, 31, index * 7919)
        h2 == MulAdd32(h1, 127, index * 104729)
        a == Digits(Abs(h2))
        b == GoldenDigits
        product == RoundToDouble(Normalise(<<a[1] * b[1],
                                             a[1] * b[2] + a[2] * b[1],
                                             a[1] * b[3] + a[2] * b[2] + a[3] * b[1],
                                             a[2] * b[3] + a[3] * b[2],
                                             a[3] * b[3]>>))
        low == product[1] + product[2] * Limb
        top == product[3] % 4
        low32 == IF h2 >= 0 THEN <<top, low>>
                 ELSE IF low = 0 THEN <<(4 - top) % 4, 0>>
                 ELSE <<3 - top, Limb * Limb - low>>
        mixed == <<low32[1], Xor(low32[2], index * 65537)>>
    IN  Abs((IF mixed[1] >= 2 THEN mixed[1] - 4 ELSE mixed[1]) * Limb * Limb + mixed[2])

\* Galaxy.selectStarType on the value state / 0x7fffffff
starTypeOfDraw(state) ==
    LET percent == floorOfDraw(state, 100)
    IN  IF percent < 45 THEN "red_dwarf"
        ELSE IF percent < 70 THEN "yellow_dwarf"
        ELSE IF percent < 82 THEN "orange_giant"
        ELSE IF percent < 90 THEN "white_dwarf"
        ELSE IF percent < 96 THEN "red_giant"
        ELSE "blue_giant"

GameSeed == 42

\* generateSystemConfig(index).planetCount: the star roll is the first draw,
\* the planet-count roll the fifth
gamePlanetCount(index) ==
    LET s1 == randomStep(hashSeed(GameSeed, index))
        s5 == randomStep(randomStep(randomStep(randomStep(s1))))
    IN  getBasePlanetCount(starTypeOfDraw(s1)) + floorOfDraw(s5, 3)

\* a name made of the prefix alone
gamePlanetPrefix(system, index) ==
    <<floorOfDraw(randomStep(hashString(PlanetKey(system, index))), 24), 0>>

\* generatePlanetConfig(index).name, as <<prefixIndex, suffixIndex>>
gamePlanetName(system, index) ==
    LET s1 == randomStep(hashString(PlanetKey(system, index)))
    IN  <<floorOfDraw(s1, 24), floorOfDraw(randomStep(s1), 16)>>

\* no planet generated yet
NoPlanetConfig ==
    [ name |-> <<-1, -1>>, distance |-> 0, size |-> 0, color |-> <<0, 0, 0>>,
      hasRings |-> FALSE, planetType |-> "none", isHabitable |-> FALSE ]

\* no generation is explored
NoGeneration ==
    /\ systemSeed = 0
    /\ planetIndex = 0
    /\ runA = [systemConfig |-> generateSystemConfig(0), planetConfig |-> NoPlanetConfig]
    /\ runB = [systemConfig |-> generateSystemConfig(0), planetConfig |-> NoPlanetConfig]

\* no generator is explored
NoRandom ==
    /\ rngSeed = 0
    /\ rngState = 0
    /\ rngDraws = 0

\* no scene is explored
NoScene ==
    /\ sceneSystems = <<>>
    /\ sceneMeshes = <<>>
    /\ sceneCall = [op |-> "none", system |-> 0, active |-> FALSE]
    /\ updateLog = <<>>

NoRest == NoRandom /\ visited = {} /\ kindled = {} /\ NoScene

(* ------------------------------------------------------------------------ *)
(* Specifications                                                           *)
(* ------------------------------------------------------------------------ *)
\* the planet variable while the galaxy is explored
NoPlanet == NewPlanet(FALSE, 0, 1)

\* the galaxy right after its constructor, for a configuration
GalaxyInit(cfg) ==
    /\ phase = "creating"
    /\ config = cfg
    /\ solarSystems = <<>>
    /\ currentSystemIndex = 0
    /\ isTransitioning = FALSE
    /\ onSystemChangeCallbacks = <<>>
    /\ isWarping = FALSE
    /\ animation = NoClosure
    /\ notifying = 0
    /\ notified = <<>>
    /\ lastRequest = NoRequest
    /\ accepted = NoTravel
    /\ committed = NoTravel
    /\ snapshot = [i \in 1..cfg.systemCount |-> NoSnapshot]
    /\ lifeCalls = 0
    /\ planet = NoPlanet
    /\ lastOp = NoValue
    /\ started = FALSE
    /\ NoLedger
    /\ NoGeneration
    /\ NoRest

\* configurations: systemCount systems, each with a planet count and the slots
\* generation made habitable
Configs(counts, planetCounts, habitables) ==
    UNION { [systemCount : {n}, planetCount : [1..n -> planetCounts],
             habitable : [1..n -> habitables]] : n \in counts }

Init == \E cfg \in Configs(1..MaxSystems, {MaxPlanets}, {{}}) : GalaxyInit(cfg)

Next ==
    \/ CreateSystem
    \/ TravelToSystem
    \/ TravelToNextSystem
    \/ TravelToPreviousSystem
    \/ GameTravelToNextSystem
    \/ GameTravelToPreviousSystem
    \/ OnSystemChange
    \/ WarpComplete
    \/ NotifyListener
    \/ Update

Spec == Init /\ [][Next]_vars

\* the same galaxy when every warp animation runs to its end callback and the
\* forEach over the listeners, which is synchronous, runs to its end
SpecAnimated == Init /\ [][Next]_vars /\ WF_vars(WarpComplete) /\ WF_vars(NotifyListener)

\* the evolution API is called on the planets of a galaxy of two systems with
\* one or two planets each, the innermost one habitable
InitLife == \E cfg \in Configs({2}, {1, 2}, {{1}}) : GalaxyInit(cfg)

NextLife ==
    \/ CreateSystem
    \/ TravelToSystem
    \/ TravelToNextSystem
    \/ TravelToPreviousSystem
    \/ WarpComplete
    \/ Update
    \/ IgniteCall
    \/ StartEvolutionCall
    \/ AdvanceEvolutionCall
    \/ PauseEvolutionCall
    \/ ResumeEvolutionCall

SpecLife == InitLife /\ [][NextLife]_vars

(* ------------------------------------------------------------------------ *)
(* One planet driven through its public interface                           *)
(* ------------------------------------------------------------------------ *)
PlanetInit ==
    /\ phase = "none"
    /\ config = [systemCount |-> 0, planetCount |-> <<>>, habitable |-> <<>>]
    /\ solarSystems = <<>>
    /\ currentSystemIndex = 0
    /\ isTransitioning = FALSE
    /\ onSystemChangeCallbacks = <<>>
    /\ isWarping = FALSE
    /\ animation = NoClosure
    /\ notifying = 0
    /\ notified = <<>>
    /\ lastRequest = NoRequest
    /\ accepted = NoTravel
    /\ committed = NoTravel
    /\ snapshot = <<>>
    /\ lifeCalls = 0
    /\ \E habitable \in BOOLEAN : planet = NewPlanet(habitable, 0, 1)
    /\ lastOp = NoValue
    /\ started = FALSE
    /\ NoLedger
    /\ NoGeneration
    /\ NoRest

PlanetCall(name, result) ==
    /\ phase = "none"
    /\ planet' = result
    /\ lastOp' = name
    /\ started' = (started \/ (name = "startEvolution" /\ result # planet))
    /\ UNCHANGED besidePlanet

Ignite == PlanetCall("ignite", ignite(planet))
StartEvolution == PlanetCall("startEvolution", startEvolution(planet))
AdvanceEvolution == PlanetCall("advanceEvolution", advanceEvolution(planet))
PauseEvolution == PlanetCall("pauseEvolution", pauseEvolution(planet))
ResumeEvolution == PlanetCall("resumeEvolution", resumeEvolution(planet))
SetHabitable == \E h \in BOOLEAN : PlanetCall("setHabitable", setHabitable(planet, h))
SetSelected == \E s \in BOOLEAN : PlanetCall("setSelected", setSelected(planet, s))
SetEnabled == \E e \in BOOLEAN : PlanetCall("setEnabled", setEnabled(planet, e))
UpdatePlanet ==
    /\ planet.orbitAngle + planet.orbitSpeed <= MaxAngle
    /\ PlanetCall("update", PlanetUpdate(planet))

NextPlanet ==
    \/ Ignite
    \/ StartEvolution
    \/ AdvanceEvolution
    \/ PauseEvolution
    \/ ResumeEvolution
    \/ SetHabitable
    \/ SetSelected
    \/ SetEnabled
    \/ UpdatePlanet

SpecPlanet == PlanetInit /\ [][NextPlanet]_vars

\* the same planet when only the evolution calls (and the calls that do not
\* concern the lifecycle) are made on it: no ignite(), no setHabitable()
NextEvolution ==
    \/ StartEvolution
    \/ AdvanceEvolution
    \/ PauseEvolution
    \/ ResumeEvolution
    \/ SetSelected
    \/ SetEnabled
    \/ UpdatePlanet

SpecEvolution == PlanetInit /\ [][NextEvolution]_vars

\* the same planet when ignite() and the evolution calls are made on it, in
\* any order: no setHabitable()
NextLifecycle ==
    \/ Ignite
    \/ NextEvolution

SpecLifecycle == PlanetInit /\ [][NextLifecycle]_vars

(* ------------------------------------------------------------------------ *)
(* One GameState driven through its public interface                        *)
(* ------------------------------------------------------------------------ *)
\* no galaxy is explored
NoGalaxy ==
    /\ phase = "none"
    /\ config = [systemCount |-> 0, planetCount |-> <<>>, habitable |-> <<>>]
    /\ solarSystems = <<>>
    /\ currentSystemIndex = 0
    /\ isTransitioning = FALSE
    /\ onSystemChangeCallbacks = <<>>
    /\ isWarping = FALSE
    /\ animation = NoClosure
    /\ notifying = 0
    /\ notified = <<>>
    /\ lastRequest = NoRequest
    /\ accepted = NoTravel
    /\ committed = NoTravel
    /\ snapshot = <<>>
    /\ lifeCalls = 0

\* what the storage may hold when the page is loaded: nothing, text that is
\* not JSON, the JSON null, and objects whose body list is not iterable, is
\* absent, or names a body twice
InitialBlobs ==
    { MissingBlob,
      Blob("unparseable", Bodies("absent", <<>>), 0, 0, 0),
      Blob("null", Bodies("absent", <<>>), 0, 0, 0),
      Blob("object", Bodies("notIterable", <<>>), 1, 1, 750),
      Blob("object", Bodies("absent", <<>>), 3, 4, 0),
      Blob("object",
           Bodies("entries", << Entry(1, Body("planet", 5, 1500, FALSE)),
                                Entry(1, Body("planet", 5, 1500, TRUE)) >>),
           1, 1, 750) }

\* the GameState after its field initialisers, before the constructor body
GameStateInit ==
    /\ NoGalaxy
    /\ planet = NoPlanet
    /\ lastOp = NoValue
    /\ started = FALSE
    /\ gameState = NewGameState
    /\ storage \in InitialBlobs
    /\ lastCall = NoCall
    /\ calls = 0
    /\ NoGeneration
    /\ NoRest

besideGameState == <<galaxyVars, ghostVars, planetVars, generationVars, restVars>>

\* constructor: this.loadState()
Constructor ==
    /\ lastCall = NoCall
    /\ \E readThrows \in BOOLEAN :
         gameState' = loadState(gameState, storage, readThrows)
    /\ lastCall' = Call("constructor", 0, FALSE, 0)
    /\ UNCHANGED <<storage, calls>>
    /\ UNCHANGED besideGameState

Constructed == lastCall # NoCall

LoadState ==
    /\ Constructed
    /\ calls < MaxCalls
    /\ calls' = calls + 1
    /\ \E readThrows \in BOOLEAN :
         gameState' = loadState(gameState, storage, readThrows)
    /\ lastCall' = Call("loadState", 0, FALSE, 0)
    /\ UNCHANGED storage
    /\ UNCHANGED besideGameState

AddDiscoveredBody ==
    /\ Constructed
    /\ calls < MaxCalls
    /\ calls' = calls + 1
    /\ \E name \in Names, data \in BodyData :
         /\ gameState' = addDiscoveredBody(gameState, name, data)
         /\ lastCall' = Call("addDiscoveredBody", name, FALSE, 0)
    /\ UNCHANGED storage
    /\ UNCHANGED besideGameState

\* saveState: setItem may throw, which is caught
SaveState ==
    /\ Constructed
    /\ calls < MaxCalls
    /\ calls' = calls + 1
    /\ \E writeThrows \in BOOLEAN :
         storage' = IF writeThrows THEN storage ELSE saveState(gameState)
    /\ lastCall' = Call("saveState", 0, FALSE, 0)
    /\ UNCHANGED gameState
    /\ UNCHANGED besideGameState

\* ignitePlanet: the ledger update, then this.saveState() when it took place
IgnitePlanet ==
    /\ Constructed
    /\ calls < MaxCalls
    /\ calls' = calls + 1
    /\ \E name \in Names, writeThrows \in BOOLEAN :
         /\ gameState' = ignitePlanet(gameState, name)
         /\ storage' = IF canIgnite(gameState, name) /\ ~writeThrows
                       THEN saveState(gameState') ELSE storage
         /\ lastCall' = Call("ignitePlanet", name, FALSE, 0)
    /\ UNCHANGED besideGameState

\* resetState: localStorage.removeItem is called outside any try block, so
\* what it throws reaches the caller
ResetState ==
    /\ Constructed
    /\ calls < MaxCalls
    /\ calls' = calls + 1
    /\ gameState' = resetState(gameState)
    /\ \E removeThrows \in BOOLEAN :
         /\ storage' = IF removeThrows THEN storage ELSE MissingBlob
         /\ lastCall' = Call("resetState", 0, removeThrows, 0)
    /\ UNCHANGED besideGameState

GetProgress ==
    /\ Constructed
    /\ calls < MaxCalls
    /\ calls' = calls + 1
    /\ lastCall' = Call("getProgress", 0, FALSE, getProgress(gameState))
    /\ UNCHANGED <<gameState, storage>>
    /\ UNCHANGED besideGameState

NextGameState ==
    \/ Constructor
    \/ LoadState
    \/ AddDiscoveredBody
    \/ SaveState
    \/ IgnitePlanet
    \/ ResetState
    \/ GetProgress

SpecGameState == GameStateInit /\ [][NextGameState]_vars

\* a GameState built on empty storage on which only addDiscoveredBody,
\* ignitePlanet and getProgress are called
LedgerInit == GameStateInit /\ storage = MissingBlob

NextLedger ==
    \/ Constructor
    \/ AddDiscoveredBody
    \/ IgnitePlanet
    \/ GetProgress

SpecLedger == LedgerInit /\ [][NextLedger]_vars

\* the ledger across page loads while localStorage works: no call of getItem,
\* setItem or removeItem throws, and the storage starts empty
besideLedger == <<galaxyVars, ghostVars, planetVars, generationVars, randomVars, visited,
                  sceneVars>>

\* the first page load: new GameState() has found no item
PersistInit ==
    /\ NoGalaxy
    /\ planet = NoPlanet
    /\ lastOp = NoValue
    /\ started = FALSE
    /\ gameState = loadState(NewGameState, MissingBlob, FALSE)
    /\ storage = MissingBlob
    /\ lastCall = Call("constructor", 0, FALSE, 0)
    /\ calls = 0
    /\ NoGeneration
    /\ NoRest

\* an ignitePlanet that left saving to its caller
IgniteUnsaved(name) ==
    /\ gameState' = ignitePlanet(gameState, name)
    /\ UNCHANGED storage

\* ignitePlanet(name): the ledger update, then saveState() when it took place
IgniteSaved(name) ==
    /\ gameState' = ignitePlanet(gameState, name)
    /\ storage' = IF canIgnite(gameState, name) THEN saveState(gameState') ELSE storage

IgniteAndSave ==
    /\ Constructed
    /\ calls < MaxCalls
    /\ calls' = calls + 1
    /\ \E name \in Names :
         /\ IgniteSaved(name)
         /\ kindled' = IF canIgnite(gameState, name) THEN kindled \cup {name} ELSE kindled
         /\ lastCall' = Call("ignitePlanet", name, FALSE, 0)
    /\ UNCHANGED besideLedger

\* resetState(): the fields are cleared and the item is removed
ResetAndRemove ==
    /\ Constructed
    /\ calls < MaxCalls
    /\ calls' = calls + 1
    /\ gameState' = resetState(gameState)
    /\ storage' = MissingBlob
    /\ kindled' = {}
    /\ lastCall' = Call("resetState", 0, FALSE, 0)
    /\ UNCHANGED besideLedger

\* the page is loaded again: new GameState(), whose constructor calls
\* loadState() on the fields' initial values
Reload ==
    /\ Constructed
    /\ calls < MaxCalls
    /\ calls' = calls + 1
    /\ gameState' = loadState(NewGameState, storage, FALSE)
    /\ lastCall' = Call("constructor", 0, FALSE, 0)
    /\ UNCHANGED <<storage, kindled>>
    /\ UNCHANGED besideLedger

NextPersist ==
    \/ AddDiscoveredBody
    \/ IgniteAndSave
    \/ ResetAndRemove
    \/ Reload

SpecPersist == PersistInit /\ [][NextPersist]_vars

(* ------------------------------------------------------------------------ *)
(* One system generated twice from the same seed                            *)
(* ------------------------------------------------------------------------ *)
\* Math.random() * 5 is in [0, 5); in halves, the values explored are 0, 2, 4
\* and 4.5
Jitters == {0, 4, 8, 9}

\* both runs have computed the system's config from hashSeed(baseSeed, index)
GenerationInit ==
    /\ NoGalaxy
    /\ planet = NoPlanet
    /\ lastOp = NoValue
    /\ started = FALSE
    /\ NoLedger
    /\ systemSeed \in 0..RngMask
    /\ planetIndex = 0
    /\ runA = [systemConfig |-> generateSystemConfig(systemSeed), planetConfig |-> NoPlanetConfig]
    /\ runB = [systemConfig |-> generateSystemConfig(systemSeed), planetConfig |-> NoPlanetConfig]
    /\ NoRest

\* one iteration of the loop of generatePlanets, in each run: the planet's
\* seed is the hash of its key, the same in both runs; the jitter of the
\* distance comes from Math.random() and is each run's own
GeneratePlanet ==
    /\ planetIndex < runA.systemConfig.planetCount
    /\ \E seed \in 0..RngMask, jitterA \in Jitters, jitterB \in Jitters :
         /\ runA' = [runA EXCEPT !.planetConfig =
                generatePlanetConfig(runA.systemConfig.starType, seed,
                    planetDistance(runA.systemConfig.starType, planetIndex, jitterA))]
         /\ runB' = [runB EXCEPT !.planetConfig =
                generatePlanetConfig(runB.systemConfig.starType, seed,
                    planetDistance(runB.systemConfig.starType, planetIndex, jitterB))]
    /\ planetIndex' = planetIndex + 1
    /\ UNCHANGED systemSeed
    /\ UNCHANGED <<galaxyVars, ghostVars, planetVars, gameStateVars, restVars>>

NextGeneration == GeneratePlanet

SpecGeneration == GenerationInit /\ [][NextGeneration]_vars

\* the same loop for every system config generateSystemConfig can return at
\* the generator's full width: each star type with its base planet count plus
\* Math.floor(random() * 3)
OrbitsInit ==
    /\ NoGalaxy
    /\ planet = NoPlanet
    /\ lastOp = NoValue
    /\ started = FALSE
    /\ NoLedger
    /\ systemSeed = 0
    /\ planetIndex = 0
    /\ \E starType \in DOMAIN StarSize, extra \in 0..2 :
         LET systemConfig == [ starType    |-> starType,
                               planetCount |-> getBasePlanetCount(starType) + extra ]
         IN  /\ runA = [systemConfig |-> systemConfig, planetConfig |-> NoPlanetConfig]
             /\ runB = [systemConfig |-> systemConfig, planetConfig |-> NoPlanetConfig]
    /\ NoRest

SpecOrbits == OrbitsInit /\ [][NextGeneration]_vars

\* seeds a generator is built from: the ends of the range, the largest state
\* whose step is exact and its successor, the one state whose exact step is
\* 0x7fffffff, and hashes the generation uses
SmallestRounded == 8162279
ExactPreimage == 230538014
Seeds == {0, 1, 42, 12345, SmallestRounded - 1, SmallestRounded, ExactPreimage,
          1073741823, StateMask - 1, StateMask}

MaxDraws == 12

RandomInit ==
    /\ NoGalaxy
    /\ planet = NoPlanet
    /\ lastOp = NoValue
    /\ started = FALSE
    /\ NoLedger
    /\ NoGeneration
    /\ rngSeed \in Seeds
    /\ rngState = rngSeed
    /\ rngDraws = 0
    /\ visited = {}
    /\ kindled = {}
    /\ NoScene

\* one call of the closure
Draw ==
    /\ rngDraws < MaxDraws
    /\ rngState' = randomStep(rngState)
    /\ rngDraws' = rngDraws + 1
    /\ UNCHANGED <<rngSeed, visited, kindled, sceneVars>>
    /\ UNCHANGED <<galaxyVars, ghostVars, planetVars, gameStateVars, generationVars>>

NextRandom == Draw

SpecRandom == RandomInit /\ [][NextRandom]_vars

(* ------------------------------------------------------------------------ *)
(* Two solar systems created in one scene                                   *)
(* ------------------------------------------------------------------------ *)
\* createMoons makes Math.floor(1 + Math.random() * 2) moons; up to MaxMoons
\* of them are explored
MaxMoons == 1
\* createComets makes 1 + Math.floor(Math.random() * 3) comets; up to
\* MaxComets of them are explored
MaxComets == 2

\* config.id of the two systems: system_8 and system_9 of a galaxy
SceneIds == <<8, 9>>

\* both systems have the least number of planets that allows a belt
ScenePlanetCount == BeltMinPlanets

\* moons per slot: a planet has moons when its size exceeds 2, which the giant
\* planets of the outer slots do
MoonCounts ==
    { [k \in 1..ScenePlanetCount |-> IF k \in large THEN c ELSE 0] :
        large \in {{}, {ScenePlanetCount}, {ScenePlanetCount - 1, ScenePlanetCount}},
        c \in 1..MaxMoons }

\* ProceduralPlanet.createMoons of the planet in a slot of a system: meshes
\* named `${name}_moon_${i}`, here <<name, i>>, whose metadata holds the orbit
\* and the mesh of the planet that made them; positioned is the planet
\* around which the moon was last placed
createMoons(system, slot, p) ==
    [i \in 1..p.moonCount |->
        [ name         |-> <<p.name, i - 1>>,
          orbitAngle   |-> 0,
          orbitSpeed   |-> 1,
          enabled      |-> TRUE,
          parentPlanet |-> <<system, slot>>,
          positioned   |-> <<0, 0>> ]]

\* m.name.startsWith(`${name}_moon_`)
isMoonOf(mesh, name) == mesh.name[1] = name

\* ProceduralPlanet.updateMoons: every mesh of the scene whose name starts with
\* the planet's moon prefix advances and is placed around this planet
updateMoons(meshes, system, slot, p) ==
    [m \in DOMAIN meshes |->
        IF isMoonOf(meshes[m], p.name)
        THEN [meshes[m] EXCEPT !.orbitAngle = @ + meshes[m].orbitSpeed,
                               !.positioned = <<system, slot>>]
        ELSE meshes[m]]

\* planets.forEach(planet => planet.update()), as far as the moons go
RECURSIVE updateMoonsFrom(_, _, _, _)
updateMoonsFrom(meshes, system, planets, slot) ==
    IF slot > Len(planets) THEN meshes
    ELSE updateMoonsFrom(updateMoons(meshes, system, slot, planets[slot]),
                         system, planets, slot + 1)

\* the end of ProceduralPlanet.setEnabled, for every planet of a system: the
\* meshes found by the same prefix are switched
setMoonsEnabled(meshes, planets, enabled) ==
    [m \in DOMAIN meshes |->
        IF \E k \in DOMAIN planets : isMoonOf(meshes[m], planets[k].name)
        THEN [meshes[m] EXCEPT !.enabled = enabled]
        ELSE meshes[m]]

\* an update that reaches the belt before the planets
updateCallsBeltFirst(sys) ==
    (IF sys.asteroidBelt THEN <<<<"belt", 1>>>> ELSE <<>>)
    \o [k \in 1..Len(sys.planets) |-> <<"planet", k>>]
    \o [c \in 1..sys.comets |-> <<"comet", c>>]

\* SolarSystem.update: the update() calls it makes, in order
updateCalls(sys) ==
    [k \in 1..Len(sys.planets) |-> <<"planet", k>>]
    \o (IF sys.asteroidBelt THEN <<<<"belt", 1>>>> ELSE <<>>)
    \o [c \in 1..sys.comets |-> <<"comet", c>>]

\* a SolarSystem after create(), its planets named by generatePlanetConfig
SceneSystem(id, moons, belt, comets) ==
    [ isActive          |-> FALSE,
      planets           |-> [k \in 1..ScenePlanetCount |->
                                [ name           |-> gamePlanetName(id, k - 1),
                                  moonCount      |-> moons[k],
                                  isHabitable    |-> FALSE,
                                  evolutionStage |-> "dormant",
                                  isEvolving     |-> FALSE,
                                  ignited        |-> FALSE,
                                  selected       |-> FALSE,
                                  enabled        |-> TRUE,
                                  orbitAngle     |-> 0,
                                  orbitSpeed     |-> OrbitSpeed(k) ]],
      asteroidBelt      |-> belt,
      comets            |-> comets,
      starEnabled       |-> TRUE,
      cometsEnabled     |-> TRUE,
      orbitLinesEnabled |-> TRUE ]

\* the moon meshes a system's create() adds to the scene
RECURSIVE systemMoons(_, _, _)
systemMoons(system, sys, slot) ==
    IF slot > Len(sys.planets) THEN <<>>
    ELSE createMoons(system, slot, sys.planets[slot]) \o systemMoons(system, sys, slot + 1)

SceneInit ==
    /\ NoGalaxy
    /\ planet = NoPlanet
    /\ lastOp = NoValue
    /\ started = FALSE
    /\ NoLedger
    /\ NoGeneration
    /\ NoRandom
    /\ visited = {}
    /\ kindled = {}
    /\ \E moons \in [1..2 -> MoonCounts], belts \in [1..2 -> BOOLEAN],
          comets \in [1..2 -> 1..MaxComets] :
         LET created == [s \in 1..2 |->
                             SceneSystem(SceneIds[s], moons[s], belts[s], comets[s])]
         IN  /\ sceneSystems = created
             /\ sceneMeshes = systemMoons(1, created[1], 1) \o systemMoons(2, created[2], 1)
    /\ sceneCall = [op |-> "none", system |-> 0, active |-> FALSE]
    /\ updateLog = <<>>

\* SolarSystem.update() of one of the two systems
SceneUpdate ==
    \E s \in 1..2 :
        LET sys == sceneSystems[s] IN
        /\ \A k \in DOMAIN sys.planets : sys.planets[k].orbitAngle < MaxAngle
        /\ \A m \in DOMAIN sceneMeshes : sceneMeshes[m].orbitAngle < MaxAngle
        /\ sceneSystems' = [sceneSystems EXCEPT ![s] = SystemUpdate(sys)]
        /\ sceneMeshes' = IF sys.isActive
                          THEN updateMoonsFrom(sceneMeshes, s, sys.planets, 1)
                          ELSE sceneMeshes
        /\ updateLog' = IF sys.isActive THEN updateCalls(sys) ELSE <<>>
        /\ sceneCall' = [op |-> "update", system |-> s, active |-> sys.isActive]
        /\ UNCHANGED <<galaxyVars, ghostVars, planetVars, gameStateVars, generationVars,
                       randomVars, visited, kindled>>

\* SolarSystem.setActive(active) of one of the two systems
SceneSetActive ==
    \E s \in 1..2, active \in BOOLEAN :
        LET sys == sceneSystems[s] IN
        /\ sceneSystems' = [sceneSystems EXCEPT ![s] = setActive(sys, active)]
        /\ sceneMeshes' = setMoonsEnabled(sceneMeshes, sys.planets, active)
        /\ sceneCall' = [op |-> "setActive", system |-> s, active |-> active]
        /\ UNCHANGED updateLog
        /\ UNCHANGED <<galaxyVars, ghostVars, planetVars, gameStateVars, generationVars,
                       randomVars, visited, kindled>>

NextScene == SceneUpdate \/ SceneSetActive

SpecScene == SceneInit /\ [][NextScene]_vars

(* ------------------------------------------------------------------------ *)
(* Game: the galaxy, the GameState and the handlers that keep them in step  *)
(* ------------------------------------------------------------------------ *)
MaxGameSystems == 2
MaxIgnitions == 1

\* the galaxy of Game.init, cut to its first systems, with the names of its planets
GameConfig ==
    [ systemCount |-> MaxGameSystems,
      planetCount |-> [i \in 1..MaxGameSystems |-> gamePlanetCount(i - 1)],
      habitable   |-> [i \in 1..MaxGameSystems |-> {}],
      names       |-> [i \in 1..MaxGameSystems |->
                         [k \in 1..gamePlanetCount(i - 1) |-> gamePlanetName(i - 1, k - 1)]] ]

\* planets.forEach(planet => gameState.addDiscoveredBody(planet.getName(), {...}))
\* over the first count planets of a system
RECURSIVE registerPlanets(_, _, _)
registerPlanets(g, index, count) ==
    IF count = 0 THEN g
    ELSE addDiscoveredBody(registerPlanets(g, index, count - 1),
                           config.names[index + 1][count],
                           Body("planet", 20000, 1500, System(index).planets[count].ignited))

\* the planets ignited in the galaxy, as <<system, slot>>
IgnitedPlanets ==
    UNION { {<<i, k>> : k \in {j \in DOMAIN System(i).planets : System(i).planets[j].ignited}} :
            i \in 0..(Len(solarSystems) - 1) }

\* the planets of the systems visited
VisitedPlanets ==
    UNION { {<<i, k>> : k \in DOMAIN System(i).planets} : i \in visited }

\* new Game(): new GameState() on empty storage, then init() up to galaxy.create()
GameInit == GalaxyInit(GameConfig)

\* init() once create() has resolved: registerCurrentSystemPlanets(), then
\* galaxy.onSystemChange(system => this.handleSystemChange(system))
Registered == onSystemChangeCallbacks # <<>>

RegisterCurrentSystemPlanets ==
    /\ phase = "ready"
    /\ ~Registered
    /\ gameState' = registerPlanets(gameState, currentSystemIndex,
                                    Len(System(currentSystemIndex).planets))
    /\ onSystemChangeCallbacks' = <<1>>
    /\ visited' = {currentSystemIndex}
    /\ UNCHANGED <<phase, config, solarSystems, currentSystemIndex, isTransitioning,
                   isWarping, animation, notifying>>
    /\ UNCHANGED ghostVars
    /\ UNCHANGED <<planetVars, storage, lastCall, calls, generationVars, randomVars, kindled, sceneVars>>

\* focusPlanet, from a click or a digit key: every planet of the current
\* system is deselected, then the one picked is selected
FocusPlanet ==
    /\ Registered
    /\ Idle
    /\ \E k \in DOMAIN System(currentSystemIndex).planets :
         solarSystems' = [solarSystems EXCEPT ![currentSystemIndex + 1].planets =
                             [j \in DOMAIN @ |-> setSelected(@[j], j = k)]]
    /\ UNCHANGED <<phase, config, currentSystemIndex, isTransitioning, onSystemChangeCallbacks,
                   isWarping, animation, notifying>>
    /\ UNCHANGED ghostVars
    /\ UNCHANGED <<planetVars, gameStateVars, generationVars, restVars>>

\* igniteSelectedPlanet: the first selected planet of the current system, if
\* it is not ignited, is ignited and then ignited in the ledger, which saves
\* (the storage takes the write)
IgniteSelectedPlanet ==
    /\ Registered
    /\ Idle
    /\ Cardinality(IgnitedPlanets) < MaxIgnitions
    /\ LET planets == System(currentSystemIndex).planets
           selected == {j \in DOMAIN planets : planets[j].selected}
       IN /\ selected # {}
          /\ LET k == CHOOSE j \in selected : \A other \in selected : j <= other
                 name == config.names[currentSystemIndex + 1][k]
             IN /\ ~planets[k].ignited
                /\ solarSystems' = [solarSystems EXCEPT
                       ![currentSystemIndex + 1].planets[k] = ignite(planets[k])]
                /\ gameState' = ignitePlanet(gameState, name)
                /\ storage' = IF canIgnite(gameState, name)
                                THEN saveState(gameState') ELSE storage
    /\ UNCHANGED <<phase, config, currentSystemIndex, isTransitioning, onSystemChangeCallbacks,
                   isWarping, animation, notifying>>
    /\ UNCHANGED ghostVars
    /\ UNCHANGED <<planetVars, lastCall, calls, generationVars, restVars>>

\* the N and P keys and the buttons, once the controls are set up
PressNext == Registered /\ GameTravelToNextSystem

PressPrevious == Registered /\ GameTravelToPreviousSystem

\* the listener of Game, called by the completion callback with nextSystem:
\* handleSystemChange registers the planets of that system
HandleSystemChange ==
    /\ Registered
    /\ notifying > 0
    /\ gameState' = registerPlanets(gameState, committed.to, Len(System(committed.to).planets))
    /\ notified' = Append(notified, listenerAt(notifying))
    /\ notifying' = IF notifying < Len(onSystemChangeCallbacks) THEN notifying + 1 ELSE 0
    /\ visited' = visited \cup {committed.to}
    /\ UNCHANGED <<phase, config, solarSystems, currentSystemIndex, isTransitioning,
                   onSystemChangeCallbacks, isWarping, animation>>
    /\ UNCHANGED <<lastRequest, accepted, committed, snapshot, lifeCalls>>
    /\ UNCHANGED <<planetVars, storage, lastCall, calls, generationVars, randomVars, kindled, sceneVars>>

NextGame ==
    \/ CreateSystem
    \/ RegisterCurrentSystemPlanets
    \/ FocusPlanet
    \/ IgniteSelectedPlanet
    \/ PressNext
    \/ PressPrevious
    \/ WarpComplete
    \/ HandleSystemChange

SpecGame == GameInit /\ [][NextGame]_vars

(* ------------------------------------------------------------------------ *)
(* Properties                                                               *)
(* ------------------------------------------------------------------------ *)
Ready == phase = "ready"

\* 0-based indices of the systems of the galaxy
Indices == 0..(Len(solarSystems) - 1)

ActiveIndices == {i \in Indices : System(i).isActive}

\* what a travel can change in the galaxy and the effect
travelState == <<solarSystems, currentSystemIndex, isTransitioning, isWarping, animation,
                 onSystemChangeCallbacks>>

\* a step that swaps systems or leaves the transition
CommitStep ==
    /\ Ready
    /\ \/ currentSystemIndex' # currentSystemIndex
       \/ \E i \in Indices : solarSystems'[i + 1].isActive # solarSystems[i + 1].isActive
       \/ isTransitioning /\ ~isTransitioning'

\* C1: a travelToSystem call made while a travel is in flight is dropped: it
\* changes nothing, the pending target is never replaced, the index only ever
\* changes to the target of the accepted request, when the completion callback
\* fires, and once the callback's forEach ends every registered listener has
\* been notified exactly once.
C1_SecondRequestDropped ==
    [][ /\ (lastRequest' # lastRequest /\ lastRequest'.during) => UNCHANGED travelState
        /\ animation # NoClosure => animation' \in {animation, NoClosure}
        /\ currentSystemIndex' # currentSystemIndex =>
              /\ animation # NoClosure /\ animation' = NoClosure
              /\ currentSystemIndex' = accepted.to
        /\ (animation # NoClosure /\ animation' = NoClosure) =>
              /\ currentSystemIndex' = accepted.to
              /\ notified' = <<>>
              /\ notifying' = 0 <=> onSystemChangeCallbacks = <<>>
        /\ (notifying > 0 /\ notifying' = 0) => notified' = onSystemChangeCallbacks
      ]_vars

\* a second request for another valid index was dropped, the first one committed
\* and its listeners were all notified
C1_Witness ==
    /\ Ready /\ notifying = 0 /\ ~isTransitioning
    /\ lastRequest.during /\ ~lastRequest.inCallback
    /\ lastRequest.index \in Indices \ {accepted.from, accepted.to}
    /\ committed = accepted
    /\ currentSystemIndex = accepted.to
    /\ Len(notified) = MaxListeners
    /\ notified = onSystemChangeCallbacks

\* C2: while an accepted request waits for the effect's completion callback the
\* galaxy is unchanged (old system current and active, target inactive,
\* isTransitioning true, no listener fired); systems are swapped, the index
\* set, isTransitioning cleared and listeners notified only in the step that
\* consumes the pending callback, which commits exactly the accepted request.
C2_CommitInCallbackOnce ==
    [][ /\ (Ready' /\ animation' # NoClosure) =>
              /\ isTransitioning'
              /\ currentSystemIndex' = animation'.previous
              /\ solarSystems'[animation'.previous + 1].isActive
              /\ ~solarSystems'[animation'.index + 1].isActive
        /\ Ready' => (isTransitioning' <=> animation' # NoClosure)
        /\ CommitStep =>
              /\ animation # NoClosure /\ animation' = NoClosure
              /\ animation = [previous |-> accepted.from, index |-> accepted.to]
              /\ currentSystemIndex = accepted.from
              /\ currentSystemIndex' = accepted.to
              /\ ~isTransitioning'
              /\ solarSystems'[accepted.to + 1].isActive
              /\ ~solarSystems'[accepted.from + 1].isActive
              /\ committed' = accepted
        /\ notified' # notified => (animation # NoClosure /\ animation' = NoClosure) \/ notifying > 0
      ]_vars

\* a request is pending after an earlier one committed and notified a listener
C2_Witness ==
    /\ Ready /\ isTransitioning /\ animation # NoClosure /\ notifying = 0
    /\ committed # NoTravel
    /\ accepted # committed
    /\ currentSystemIndex = committed.to
    /\ Len(notified) >= 1

\* C3: once create() has ended, currentSystemIndex is a valid index and the
\* system it names is the one and only active system; before any travel it is 0.
C3_CurrentIsUniqueActive ==
    phase \in {"ready", "failed"} =>
        /\ currentSystemIndex \in Indices
        /\ ActiveIndices = {currentSystemIndex}
        /\ committed = NoTravel => currentSystemIndex = 0

\* C4: travelToSystem with an index below 0, at or above the number of systems,
\* or equal to currentSystemIndex changes nothing: no transition, no effect
\* started, no index or active flag changed, no listener fired.
C4_InvalidTravelIsNoOp ==
    [][ ( /\ lastRequest' # lastRequest
          /\ \/ lastRequest'.index < 0
             \/ lastRequest'.index >= Len(solarSystems)
             \/ lastRequest'.index = currentSystemIndex )
        => /\ UNCHANGED <<travelState, accepted, committed>>
           /\ notifying = 0 => UNCHANGED <<notified, notifying>>
      ]_vars

\* the latest call asked for index = number of systems, outside any travel
C4_Witness ==
    /\ Ready /\ notifying = 0
    /\ lastRequest.index = Len(solarSystems)
    /\ ~lastRequest.during
    /\ ~isTransitioning /\ ~isWarping /\ animation = NoClosure
    /\ accepted = committed

\* what every listener sees when it is called, and the order of the calls
ListenerView ==
    notifying > 0 =>
        /\ currentSystemIndex = committed.to
        /\ System(committed.to).isActive
        /\ ~System(committed.from).isActive
        /\ notified = SubSeq(onSystemChangeCallbacks, 1, notifying - 1)

\* C5 as claimed: during each listener call the commit is visible and
\* isInTransit() is false.
C5_ListenersSeeIdleGalaxy == ListenerView /\ (notifying > 0 => ~isTransitioning)

\* C5, amended: listeners are called once each, in registration order, after
\* the commit; each sees the target index, the target active and the previous
\* system inactive; isInTransit() is false unless a listener called earlier
\* in the same round has itself requested a travel, which is then pending.
C5_ListenersAfterCommit ==
    [][ /\ ListenerView'
        /\ (notifying' > 0 /\ isTransitioning') =>
              /\ lastRequest'.inCallback
              /\ accepted'.from = committed'.to
              /\ animation' = [previous |-> accepted'.from, index |-> accepted'.to]
        /\ (animation # NoClosure /\ animation' = NoClosure) =>
              /\ notified' = <<>>
              /\ notifying' = (IF onSystemChangeCallbacks = <<>> THEN 0 ELSE 1)
              /\ ~isTransitioning'
        /\ (notifying > 0 /\ notifying' = 0) => notified' = onSystemChangeCallbacks
        /\ notified' # notified => (animation # NoClosure /\ animation' = NoClosure) \/ notifying > 0
      ]_vars

\* the second listener is about to be called, after the first
C5_Witness ==
    /\ notifying = 2
    /\ notified = <<1>>
    /\ ~isTransitioning
    /\ currentSystemIndex = committed.to
    /\ committed.from # committed.to

\* C6: no step changes evolutionStage, ignited, isEvolving or orbitAngle of a
\* planet of a system that is not active, and a deactivated system keeps, up
\* to and including its re-activation, the values it had when deactivated.
C6_InactiveSystemsFrozen ==
    [][ Ready =>
          \A i \in Indices :
            /\ ~solarSystems[i + 1].isActive =>
                  Frozen(solarSystems'[i + 1].planets) = Frozen(solarSystems[i + 1].planets)
            /\ snapshot[i + 1] # NoSnapshot =>
                  Frozen(solarSystems'[i + 1].planets) = snapshot[i + 1]
            /\ snapshot'[i + 1] # NoSnapshot =>
                  Frozen(solarSystems'[i + 1].planets) = snapshot'[i + 1]
      ]_vars

\* system 0 was left and re-activated while another system, visited in
\* between, now lies frozen with an evolved planet that has moved on its orbit
C6_Witness ==
    /\ Ready /\ committed.to = 0 /\ currentSystemIndex = 0
    /\ System(0).isActive
    /\ \E i \in Indices :
         /\ ~System(i).isActive
         /\ snapshot[i + 1] = Frozen(System(i).planets)
         /\ \E k \in DOMAIN System(i).planets :
              /\ System(i).planets[k].evolutionStage # "dormant"
              /\ System(i).planets[k].orbitAngle > 0
    /\ \E k \in DOMAIN System(0).planets : System(0).planets[k].ignited

\* C7: the stage never moves back and never skips; on a planet whose evolution
\* has been started every advanceEvolution call moves exactly one stage on,
\* and leaves the stage unchanged once it is intelligent.
C7_StagesInOrder ==
    [][ /\ StageIndex(planet'.evolutionStage) \in
              {StageIndex(planet.evolutionStage), StageIndex(planet.evolutionStage) + 1}
        /\ (lastOp' = "advanceEvolution" /\ started) =>
              planet'.evolutionStage =
                  IF planet.evolutionStage = "intelligent" THEN "intelligent"
                  ELSE Stages[StageIndex(planet.evolutionStage) + 1]
      ]_vars

\* advanceEvolution has just been called on a started planet that is intelligent
C7_Witness ==
    /\ started
    /\ lastOp = "advanceEvolution"
    /\ planet.evolutionStage = "intelligent"

\* C8: a planet whose stage is intelligent is not evolving.
C8_IntelligentNotEvolving == planet.evolutionStage = "intelligent" => ~planet.isEvolving

\* resumeEvolution has just been called on an intelligent planet
C8_Witness ==
    /\ planet.evolutionStage = "intelligent"
    /\ lastOp = "resumeEvolution"

\* C9: startEvolution sets ignited and isEvolving, and nothing else, exactly
\* when the planet is habitable, not intelligent and not evolving; otherwise
\* it changes nothing.
C9_StartEvolutionGuard ==
    [][ lastOp' = "startEvolution" =>
          planet' = IF /\ planet.isHabitable
                       /\ planet.evolutionStage # "intelligent"
                       /\ ~planet.isEvolving
                    THEN [planet EXCEPT !.ignited = TRUE, !.isEvolving = TRUE]
                    ELSE planet
      ]_vars

\* startEvolution has just been called on a non-habitable planet, which is
\* still not ignited and dormant
C9_Witness ==
    /\ lastOp = "startEvolution"
    /\ ~planet.isHabitable
    /\ ~planet.ignited
    /\ planet.evolutionStage = "dormant"

\* C10: no call of the planet's public interface changes isHabitable.
C10_HabitableFixed == [][planet'.isHabitable = planet.isHabitable]_vars

\* C11: a planet constructed with isHabitable = false stays dormant whatever
\* startEvolution, advanceEvolution, pauseEvolution and resumeEvolution calls
\* are made on it.
C11_NonHabitableStaysDormant ==
    ~planet.isHabitable => planet.evolutionStage = "dormant"

\* C12: no planet operation clears ignited once it is set, and ignite() does
\* nothing but set it.
C12_IgnitionIrreversible ==
    [][ /\ planet.ignited => planet'.ignited
        /\ lastOp' = "ignite" => planet' = [planet EXCEPT !.ignited = TRUE]
      ]_vars

\* evolution was started, which ignited the planet, and has just been paused
C12_Witness ==
    /\ lastOp = "pauseEvolution"
    /\ started
    /\ planet.ignited
    /\ ~planet.isEvolving

\* C13: addDiscoveredBody for a name already in the ledger changes nothing;
\* for a new name it stores the data and leaves ignitedCount and score alone,
\* and totalPlanets grows by 1 exactly when the data's type is "planet".
C13_FirstWriteWins ==
    [][ lastCall'.op = "addDiscoveredBody" =>
          LET name == lastCall'.name IN
          IF MapHas(gameState.discoveredBodies, name)
          THEN gameState' = gameState
          ELSE /\ MapHas(gameState'.discoveredBodies, name)
               /\ MapGet(gameState'.discoveredBodies, name) \in BodyData
               /\ \A i \in DOMAIN gameState.discoveredBodies :
                    gameState'.discoveredBodies[i] = gameState.discoveredBodies[i]
               /\ gameState'.totalPlanets - gameState.totalPlanets =
                    IF MapGet(gameState'.discoveredBodies, name).type = "planet"
                    THEN 1 ELSE 0
               /\ gameState'.ignitedCount = gameState.ignitedCount
               /\ gameState'.score = gameState.score
      ]_vars

\* addDiscoveredBody has just been called for a body that ignitePlanet had
\* marked ignited: the ledger still holds the ignited entry
C13_Witness ==
    /\ lastCall.op = "addDiscoveredBody"
    /\ MapHas(gameState.discoveredBodies, lastCall.name)
    /\ MapGet(gameState.discoveredBodies, lastCall.name) = Body("planet", 20000, 1500, TRUE)
    /\ gameState.score = 2750
    /\ gameState.totalPlanets = 1

\* C14: ignitePlanet on a known body that is not ignited marks it, adds 1 to
\* ignitedCount and floor(distance*100 + size*500) to score; on an ignited or
\* unknown name it changes nothing.
C14_IgniteOnce ==
    [][ lastCall'.op = "ignitePlanet" =>
          LET name == lastCall'.name
              before == gameState.discoveredBodies
              after == gameState'.discoveredBodies IN
          IF MapHas(before, name) /\ ~MapGet(before, name).ignited
          THEN LET body == MapGet(before, name) IN
               /\ MapGet(after, name) = [body EXCEPT !.ignited = TRUE]
               /\ \A i \in DOMAIN before : before[i].name # name => after[i] = before[i]
               /\ Len(after) = Len(before)
               /\ gameState'.ignitedCount = gameState.ignitedCount + 1
               /\ 1000 * (gameState'.score - gameState.score)
                    <= body.distance * 100 + body.size * 500
               /\ 1000 * (gameState'.score - gameState.score + 1)
                    > body.distance * 100 + body.size * 500
               /\ gameState'.totalPlanets = gameState.totalPlanets
          ELSE gameState' = gameState
      ]_vars

\* a body of distance 20 and size 1.5 has been ignited and ignitePlanet was
\* called on it: the score is 2750
C14_Witness ==
    /\ lastCall.op = "ignitePlanet"
    /\ gameState.discoveredBodies =
         << Entry(lastCall.name, Body("planet", 20000, 1500, TRUE)) >>
    /\ gameState.ignitedCount = 1
    /\ gameState.score = 2750
    /\ storage = saveState(gameState)

C16_ScoreMonotone ==
    [][ /\ lastCall'.op \in {"addDiscoveredBody", "ignitePlanet"} =>
             gameState'.score >= gameState.score
        /\ gameState.score > 0 /\ gameState'.score = 0 => lastCall'.op = "resetState"
      ]_vars

\* C17: a load that finds no blob, an unparseable blob or a body list that
\* cannot be turned into a map raises nothing and changes nothing.
C17_LoadAllOrNothing ==
    [][ /\ lastCall'.op \in {"constructor", "loadState"}
        /\ \/ storage.kind \in {"missing", "unparseable"}
           \/ storage.kind = "object" /\ storage.bodies.form = "notIterable"
        => /\ ~lastCall'.threw
           /\ gameState' = gameState
      ]_vars

\* loadState has just been called on a GameState with a score and a body,
\* while the stored body list is not iterable and the stored counts differ
C17_Witness ==
    /\ lastCall.op = "loadState"
    /\ storage.kind = "object"
    /\ storage.bodies.form = "notIterable"
    /\ gameState.discoveredBodies # <<>>
    /\ gameState.score = 2750
    /\ gameState.score # storage.score

\* C18: no GameState operation raises an exception to its caller.
C18_NeverFatal == ~lastCall.threw

\* C19: two runs of the generation from the same seed agree on the star type
\* and planet count of the system and on the name, planetType, size, color
\* and isHabitable of every planet, whatever Math.random() returns.
C19_GenerationDeterministic ==
    /\ runA.systemConfig = runB.systemConfig
    /\ runA.planetConfig.name = runB.planetConfig.name
    /\ runA.planetConfig.planetType = runB.planetConfig.planetType
    /\ runA.planetConfig.size = runB.planetConfig.size
    /\ runA.planetConfig.color = runB.planetConfig.color
    /\ runA.planetConfig.isHabitable = runB.planetConfig.isHabitable

\* C20: a generated planet is habitable exactly when its distance is within
\* the habitable zone of its star, bounds included, and its type is
\* earth_like, mars_like or ocean.
C20_HabitableIffZoneAndType ==
    \A run \in {runA, runB} :
        run.planetConfig # NoPlanetConfig =>
            LET zone == HABITABLE_ZONES[run.systemConfig.starType]
                generated == run.planetConfig IN
            generated.isHabitable <=>
                /\ 2 * zone.inner <= generated.distance
                /\ generated.distance <= 2 * zone.outer
                /\ generated.planetType \in {"earth_like", "mars_like", "ocean"}

\* one run made a mars_like planet just outside the zone, not habitable; the
\* other made a habitable planet on the outer edge of the zone
C20_Witness ==
    /\ planetIndex > 0
    /\ runA.planetConfig.planetType = "mars_like"
    /\ runA.planetConfig.distance > 2 * HABITABLE_ZONES[runA.systemConfig.starType].outer
    /\ ~runA.planetConfig.isHabitable
    /\ runB.planetConfig.distance = 2 * HABITABLE_ZONES[runB.systemConfig.starType].outer
    /\ runB.planetConfig.isHabitable

\* C21: every value a seeded generator returns is below 1 (its state after a
\* step is never 0x7fffffff), so floor(value * 24) and floor(value * 16) are
\* indices of the name tables and floor(value * 3) is 0, 1 or 2
C21_DrawsBelowOne ==
    rngDraws > 0 =>
        /\ rngState \in 0..(StateMask - 1)
        /\ floorOfDraw(rngState, 24) \in 0..23
        /\ floorOfDraw(rngState, 16) \in 0..15
        /\ floorOfDraw(rngState, 3) \in 0..2

\* the generator seeded with the state whose exact step is 0x7fffffff has
\* returned a value
C21_Witness ==
    /\ rngDraws = 1
    /\ rngSeed = ExactPreimage
    /\ randomStepExact(rngSeed) = StateMask
    /\ rngState < StateMask

\* C22: SolarSystem.setActive(a) completes without error for every system, one
\* with an asteroid belt included, and leaves the star, every planet, the
\* comets and the orbit lines set to a, so that Galaxy.create() never fails
C22_SetActiveCompletes ==
    /\ phase # "failed"
    /\ \A i \in Indices :
         /\ System(i).starEnabled = System(i).isActive
         /\ System(i).cometsEnabled = System(i).isActive
         /\ System(i).orbitLinesEnabled = System(i).isActive

\* C23: a request is accepted only while the effect is not warping, so that
\* startWarp installs its completion callback, and every transition ends: when
\* the animation completes the galaxy is no longer in transit, also for a
\* request a listener made from inside the completion callback
C23_EveryTravelEnds ==
    /\ [][ (~isTransitioning /\ isTransitioning') =>
               (~isWarping /\ isWarping' /\ animation' # NoClosure) ]_vars
    /\ (isTransitioning ~> ~isTransitioning)

\* the travel a listener requested from inside the completion callback was
\* accepted and has completed
C23_Witness ==
    /\ lastRequest.inCallback
    /\ ~lastRequest.during
    /\ accepted.to = lastRequest.index
    /\ committed = accepted
    /\ ~isTransitioning
    /\ ~isWarping
    /\ notifying = 0

C25_EvolvedImpliesIgnited ==
    planet.evolutionStage # "dormant" => planet.ignited

\* C26: after any sequence of addDiscoveredBody and ignitePlanet calls on a
\* GameState built on empty storage, ignitedCount is at most totalPlanets and
\* getProgress is between 0 and 100
C26_IgnitedWithinTotal ==
    /\ gameState.ignitedCount <= gameState.totalPlanets
    /\ getProgress(gameState) \in 0..100

\* C27: a call of update() or setActive() on one of two systems of a scene
\* changes no planet of the other system (orbit angle, enabled state) and no
\* moon made by a planet of the other system (orbit angle, position, enabled
\* state), whatever names the planets of the two systems have
C27_OtherSystemUntouched ==
    [][\A s \in 1..2 :
          sceneCall'.system = s =>
              LET other == 3 - s IN
              /\ sceneSystems'[other].planets = sceneSystems[other].planets
              /\ \A m \in DOMAIN sceneMeshes :
                    sceneMeshes[m].parentPlanet[1] = other => sceneMeshes'[m] = sceneMeshes[m]
      ]_vars

\* C28: update() of an inactive system changes nothing and calls nothing; of
\* an active system it calls update() on every planet once, in slot order,
\* then on the belt once if there is one, then on every comet once, and each
\* planet's orbitAngle has grown by its orbitSpeed
C28_UpdateOrder ==
    [][\A s \in 1..2 :
          sceneCall'.op = "update" /\ sceneCall'.system = s =>
              LET sys == sceneSystems[s]
                  n == Len(sys.planets)
                  belt == IF sys.asteroidBelt THEN 1 ELSE 0
              IN  IF ~sys.isActive
                  THEN /\ sceneSystems' = sceneSystems
                       /\ sceneMeshes' = sceneMeshes
                       /\ updateLog' = <<>>
                  ELSE /\ Len(updateLog') = n + belt + sys.comets
                       /\ \A k \in 1..n : updateLog'[k] = <<"planet", k>>
                       /\ belt = 1 => updateLog'[n + 1] = <<"belt", 1>>
                       /\ \A c \in 1..sys.comets : updateLog'[n + belt + c] = <<"comet", c>>
                       /\ \A k \in 1..n :
                             sceneSystems'[s].planets[k].orbitAngle
                                 = sys.planets[k].orbitAngle + sys.planets[k].orbitSpeed
      ]_vars

\* an active system with a belt and two comets has just been updated
C28_Witness ==
    /\ sceneCall.op = "update"
    /\ sceneCall.active
    /\ sceneSystems[sceneCall.system].asteroidBelt
    /\ sceneSystems[sceneCall.system].comets >= 2
    /\ Len(updateLog) = ScenePlanetCount + 1 + sceneSystems[sceneCall.system].comets
    /\ \A k \in 1..ScenePlanetCount :
          sceneSystems[sceneCall.system].planets[k].orbitAngle = OrbitSpeed(k)

\* C29: within a generated system the orbit distance of each planet exceeds
\* that of the planet of the slot before, for every star type and whatever
\* the jitter Math.random() * 5 of either planet was
C29_DistancesIncrease ==
    [][planetIndex >= 1 /\ planetIndex' = planetIndex + 1 =>
          /\ runA'.planetConfig.distance > runA.planetConfig.distance
          /\ runB'.planetConfig.distance > runB.planetConfig.distance
      ]_vars

\* the second planet of a white dwarf, the star type of the least increment,
\* was generated with no jitter in one run and with the largest in the other
C29_Witness ==
    /\ runA.systemConfig.starType = "white_dwarf"
    /\ planetIndex = 2
    /\ runA.planetConfig.distance = planetDistance("white_dwarf", 1, 0)
    /\ runB.planetConfig.distance = planetDistance("white_dwarf", 1, 9)

\* the persisted snapshot, when there is one, holds the ledger's ignitedCount
\* and score
SnapshotAgrees ==
    storage # MissingBlob =>
        /\ storage.ignitedCount = gameState.ignitedCount
        /\ storage.score = gameState.score

\* a body of the ledger that is marked ignited
MarkedIgnited(g, name) ==
    MapHas(g.discoveredBodies, name) /\ MapGet(g.discoveredBodies, name).ignited

\* C30 as stated: while storage works the snapshot agrees with the ledger,
\* and a new GameState built after any calls of addDiscoveredBody,
\* ignitePlanet and resetState has the same ignitedCount and score and holds,
\* ignited, every body that was marked ignited before
C30_ReloadRestoresAllIgnited ==
    /\ []SnapshotAgrees
    /\ [][lastCall'.op = "constructor" =>
              /\ gameState'.ignitedCount = gameState.ignitedCount
              /\ gameState'.score = gameState.score
              /\ \A name \in Names :
                    MarkedIgnited(gameState, name) => MarkedIgnited(gameState', name)
         ]_vars

\* C30, amended: while storage works the snapshot agrees with the ledger, and
\* a new GameState has the same ignitedCount and score and holds, ignited,
\* every body that ignitePlanet has ignited since the ledger was last empty;
\* a body that addDiscoveredBody added as already ignited is not saved by
\* that call
C30_ReloadRestoresKindled ==
    /\ []SnapshotAgrees
    /\ [][lastCall'.op = "constructor" =>
              /\ gameState'.ignitedCount = gameState.ignitedCount
              /\ gameState'.score = gameState.score
              /\ \A name \in kindled :
                    MarkedIgnited(gameState, name) /\ MarkedIgnited(gameState', name)
         ]_vars

\* a GameState was built anew from a snapshot that holds an ignited body and
\* a positive score
C30_Witness ==
    /\ lastCall.op = "constructor"
    /\ calls >= 3
    /\ storage # MissingBlob
    /\ kindled # {}
    /\ gameState.ignitedCount >= 1
    /\ gameState.score > 0
    /\ \A name \in kindled : MarkedIgnited(gameState, name)

====
